---------------------------- MODULE Spec2Model ----------------------------
(***************************************************************************)
(* kode-bricks: the domain catalogue and the domain-scoped capability     *)
(* gate (src/shared/domains.ts), the two tools that switch the domain      *)
(* (switchDomainTool, newTaskTool), the configuration manager of the      *)
(* code index (CodeIndexConfigManager), and the domain vector retriever    *)
(* with its file-backed FaissClient.  Each part has a specification of     *)
(* its own over the shared variables; a part that is not examined keeps    *)
(* its variables at fixed idle values.                                     *)
(*                                                                         *)
(* Strings that the code only compares are TLA+ strings.  File paths and   *)
(* regular-expression patterns are sequences of one-character tokens so    *)
(* that RegExp.test can be computed.  An optional value is None or         *)
(* Some(v), mirroring undefined / defined in the TypeScript source.        *)
(*                                                                         *)
(* The built-in list `domains` is data that docs/domain-pipeline.md tells  *)
(* maintainers to extend ("Adding a New Domain"), and a DomainConfig may   *)
(* carry group options.  The gate is therefore examined over a small       *)
(* family of valid built-in lists, the shipped list being one of them.     *)
(***************************************************************************)
EXTENDS Integers, Sequences, FiniteSets, TLC

VARIABLES
    domains,          \* the module-level array `domains`
    toolGroups,       \* TOOL_GROUPS, fixed at process start
    tool,             \* arguments of the isToolAllowedForDomain call
    domainSlug,
    customDomains,
    toolRequirements,
    toolParams,
    experiments,
    gateResult,       \* Pending, or what the call returned / threw
    customDomainPrompts,  \* arguments of a getFullDomainDetails call
    detailOptions,
    call,             \* the last catalogue call and what it returned
    remembered,       \* the first getAllDomains call, and whether others followed
    promptOverride,   \* promptComponent argument of a getDomainSelection call
    block,            \* the tool-use block handed to a tool handler
    cline,            \* the task running the tool (Task fields the tools touch)
    provider,         \* what cline.providerRef.deref() yields, with its state
    events,           \* the calls the tool handler has made, in order
    pc,               \* the tool handler's position
    persisted,        \* what the context proxy holds (global state and secrets)
    manager,          \* the fields of the CodeIndexConfigManager
    loadedConfig,     \* the persisted configuration seen by the last load
    configCall,       \* the last call on the manager and what it returned
    faissClient,      \* DomainVectorRetriever.faissClient: 0 (null) or a client
    loadedDomain,     \* DomainVectorRetriever.loadedDomain
    clients,          \* the FaissClient objects constructed so far
    retrievals,       \* the getTopChunksForQuery calls started so far
    lastFailure,      \* the client whose failed load ended the latest call
    faissCall         \* the last call on a FaissClient and what it returned

vars == <<domains, toolGroups, tool, domainSlug, customDomains,
          toolRequirements, toolParams, experiments, gateResult,
          customDomainPrompts, detailOptions, call, remembered,
          promptOverride, block, cline, provider, events, pc,
          persisted, manager, loadedConfig, configCall,
          faissClient, loadedDomain, clients, retrievals, lastFailure,
          faissCall>>

gateVars == <<tool, domainSlug, customDomains, toolRequirements,
              toolParams, experiments, gateResult>>

catVars == <<customDomainPrompts, detailOptions, call, remembered>>

toolVars == <<block, cline, provider, events, pc>>

configVars == <<persisted, manager, loadedConfig, configCall>>

retrieverVars == <<faissClient, loadedDomain, clients, retrievals,
                   lastFailure, faissCall>>

restVars == <<promptOverride, toolVars, configVars, retrieverVars>>

-----------------------------------------------------------------------------
(* Bounds *)

MaxGateCustom == 1

MaxCustomDomains == 2

-----------------------------------------------------------------------------
(* Optional values and JavaScript truthiness *)

None == [def |-> FALSE]

Some(v) == [def |-> TRUE, v |-> v]

\* `x || y` / `if (x)` on an optional string or path: undefined and the
\* empty string (empty sequence) are falsy.
TruthyStr(o) == o.def /\ o.v # ""

TruthySeq(o) == o.def /\ o.v # <<>>

\* `a ?? b` on optional values
Coalesce(a, b) == IF a.def THEN a ELSE b

\* `a || b` on optional strings
OrStr(a, b) == IF TruthyStr(a) THEN a ELSE b

-----------------------------------------------------------------------------
(* Regular expressions: literal tokens, "\\." (escaped dot), "." (any     *)
(* character), "^" and "$" anchors.  "(" alone does not compile.           *)

TokenMatches(tok, ch) ==
    IF tok = "." THEN TRUE
    ELSE IF tok = "\\." THEN ch = "."
    ELSE tok = ch

RECURSIVE MatchHere(_, _)
MatchHere(re, text) ==
    IF re = <<>> THEN TRUE
    ELSE IF re = <<"$">> THEN text = <<>>
    ELSE IF text # <<>> /\ TokenMatches(Head(re), Head(text))
         THEN MatchHere(Tail(re), Tail(text))
    ELSE FALSE

Compiles(pattern) == \A i \in 1..Len(pattern) : pattern[i] # "("

RegExpTest(pattern, text) ==
    IF pattern # <<>> /\ Head(pattern) = "^"
    THEN MatchHere(Tail(pattern), text)
    ELSE \E i \in 0..Len(text) : MatchHere(pattern, SubSeq(text, i + 1, Len(text)))

doesFileMatchRegex(filePath, pattern) ==
    IF Compiles(pattern) THEN RegExpTest(pattern, filePath) ELSE FALSE

-----------------------------------------------------------------------------
(* Group entries *)

Bare(g) == [tuple |-> FALSE, name |-> g]

WithOptions(g, opts) == [tuple |-> TRUE, name |-> g, options |-> opts]

getGroupName(group) == group.name

getGroupOptions(group) == IF group.tuple THEN Some(group.options) ELSE None

MdOnly == <<"\\.", "m", "d", "$">>

MdOptions == [fileRegex |-> Some(MdOnly), description |-> Some("Markdown only")]

TsOptions == [fileRegex |-> Some(<<"\\.", "t", "s", "$">>), description |-> None]

-----------------------------------------------------------------------------
(* Tool catalogue, always-available tools and experiment identifiers       *)

ToolGroupNames == {"read", "edit", "browser", "command", "mcp"}

DisjointToolGroups ==
    [g \in ToolGroupNames |->
        CASE g = "read"    -> {"read_file"}
          [] g = "edit"    -> {"write_to_file", "insert_content"}
          [] g = "browser" -> {"browser_action"}
          [] g = "command" -> {"execute_command"}
          [] g = "mcp"     -> {"use_mcp_tool"}]

\* a catalogue in which one tool is granted by two groups
OverlappingToolGroups ==
    [DisjointToolGroups EXCEPT !["read"] = {"read_file", "write_to_file"}]

TOOL_GROUPS == {DisjointToolGroups, OverlappingToolGroups}

ALWAYS_AVAILABLE_TOOLS == {"ask_followup_question", "attempt_completion"}

EXPERIMENT_IDS == {"insert_content", "powerSteering"}

-----------------------------------------------------------------------------
(* Built-in domains *)

AllGroups == <<Bare("read"), Bare("edit"), Bare("browser"), Bare("command"), Bare("mcp")>>

Domain(slug, name, role, when, instr, groups) ==
    [slug |-> slug, name |-> name, roleDefinition |-> role,
     whenToUse |-> when, customInstructions |-> instr, groups |-> groups]

ShippedDomains ==
    << Domain("healthcare", "Healthcare", "healthcare role",
              Some("healthcare tasks"), Some("patient privacy"), AllGroups),
       Domain("automobile", "Automobile", "automobile role",
              Some("automobile tasks"), Some("safety standards"), AllGroups),
       Domain("manufacturing", "Manufacturing", "manufacturing role",
              Some("manufacturing tasks"), Some("quality control"), AllGroups),
       Domain("entertainment", "Entertainment", "entertainment role",
              Some("manufacturing tasks"), Some("quality control"), AllGroups) >>

\* the shipped list with the first entry's edit group restricted to
\* Markdown files and declared before an unrestricted read group
RestrictedFirst ==
    [ShippedDomains EXCEPT ![1].groups =
        <<WithOptions("edit", MdOptions), Bare("read"), Bare("command")>>,
                           ![1].whenToUse = None]

\* the same with the read group declared first and carrying options
RestrictedSecond ==
    [ShippedDomains EXCEPT ![1].groups =
        <<WithOptions("read", TsOptions), WithOptions("edit", MdOptions)>>,
                           ![1].customInstructions = None]

BuiltInLists == {ShippedDomains, RestrictedFirst, RestrictedSecond}

defaultDomainSlug == domains[1].slug

-----------------------------------------------------------------------------
(* Custom domains offered to the calls *)

CustomHealthcare ==
    Domain("healthcare", "My Healthcare", "custom healthcare role",
           None, Some(""), <<Bare("read"), WithOptions("edit", TsOptions)>>)

CustomLegal ==
    Domain("legal", "Legal", "legal role",
           Some("legal tasks"), Some("cite sources"),
           <<WithOptions("edit", MdOptions), Bare("read")>>)

CustomLegalAgain ==
    Domain("legal", "Legal II", "second legal role", None, None, <<Bare("read")>>)

CustomFinance ==
    Domain("finance", "Finance", "finance role", None, None,
           <<Bare("read"), Bare("edit")>>)

CustomPool == {CustomHealthcare, CustomLegal, CustomLegalAgain, CustomFinance}

SeqsUpTo(S, n) == UNION {[1..k -> S] : k \in 0..n}

Slugs == {"healthcare", "legal", "nowhere"}


-----------------------------------------------------------------------------
(* Lookups *)

\* Array.prototype.find on the slug: the first entry with that slug
FindBySlug(list, slug) ==
    IF \E i \in 1..Len(list) : list[i].slug = slug
    THEN Some(list[CHOOSE i \in 1..Len(list) :
                     /\ list[i].slug = slug
                     /\ \A j \in 1..(i - 1) : list[j].slug # slug])
    ELSE None

\* the customDomains argument is accepted and not consulted
getDomainBySlug(slug, customs) == FindBySlug(domains, slug)

findDomainBySlug(slug, list) == IF list.def THEN FindBySlug(list.v, slug) ELSE None

isCustomDomain(slug, customs) ==
    customs.def /\ \E i \in 1..Len(customs.v) : customs.v[i].slug = slug

-----------------------------------------------------------------------------
(* Merging custom domains into the built-in list *)

\* Array.prototype.findIndex on the slug; 0 stands for -1
FindIndex(list, slug) ==
    IF \E i \in 1..Len(list) : list[i].slug = slug
    THEN CHOOSE i \in 1..Len(list) :
            /\ list[i].slug = slug
            /\ \A j \in 1..(i - 1) : list[j].slug # slug
    ELSE 0

\* customDomains.forEach(...): override in place, or push
RECURSIVE forEachCustom(_, _)
forEachCustom(allDomains, customs) ==
    IF customs = <<>> THEN allDomains
    ELSE LET customDomain == Head(customs)
             index        == FindIndex(allDomains, customDomain.slug)
         IN  forEachCustom(IF index # 0
                              THEN [allDomains EXCEPT ![index] = customDomain]
                              ELSE Append(allDomains, customDomain),
                           Tail(customs))

\* a merge that looks a custom slug up among the built-ins only
RECURSIVE forEachCustom_builtInIndex(_, _)
forEachCustom_builtInIndex(allDomains, customs) ==
    IF customs = <<>> THEN allDomains
    ELSE LET customDomain == Head(customs)
             index        == FindIndex(domains, customDomain.slug)
         IN  forEachCustom_builtInIndex(
                 IF index # 0
                 THEN [allDomains EXCEPT ![index] = customDomain]
                 ELSE Append(allDomains, customDomain),
                 Tail(customs))

getAllDomains_builtInIndex(customs) ==
    IF ~customs.def \/ customs.v = <<>>
    THEN [returned |-> domains, domains |-> domains]
    ELSE [returned |-> forEachCustom_builtInIndex(domains, customs.v),
          domains  |-> domains]

\* the merge run on the array `domains` itself instead of on a copy of it
getAllDomains_noCopy(customs) ==
    IF ~customs.def \/ customs.v = <<>>
    THEN [returned |-> domains, domains |-> domains]
    ELSE [returned |-> forEachCustom(domains, customs.v),
          domains  |-> forEachCustom(domains, customs.v)]

\* a merge that appends an overriding custom domain instead of replacing
getAllDomains_appendOnly(customs) ==
    IF ~customs.def \/ customs.v = <<>>
    THEN [returned |-> domains, domains |-> domains]
    ELSE [returned |-> domains \o customs.v, domains |-> domains]

\* returned: the value of the call; domains: the array `domains` after it.
\* The merge works on the copy [...domains], so `domains` is left as it was.
getAllDomains(customs) ==
    IF ~customs.def \/ customs.v = <<>>
    THEN [returned |-> domains, domains |-> domains]
    ELSE [returned |-> forEachCustom(domains, customs.v), domains |-> domains]

-----------------------------------------------------------------------------
(* Prompt selection and full domain details *)

PromptComponent(role, when, instr) ==
    [roleDefinition |-> role, whenToUse |-> when, customInstructions |-> instr]

\* falls back field by field: promptComponent?.field || builtInDomain?.field
getDomainSelection_fieldwise(slug, promptComponent, customs) ==
    LET builtInDomain == findDomainBySlug(slug, Some(domains))
        role == IF promptComponent.def /\ TruthyStr(promptComponent.v.roleDefinition)
                THEN promptComponent.v.roleDefinition.v
                ELSE IF builtInDomain.def THEN builtInDomain.v.roleDefinition ELSE ""
        instr == IF promptComponent.def /\ TruthyStr(promptComponent.v.customInstructions)
                 THEN promptComponent.v.customInstructions.v
                 ELSE IF builtInDomain.def
                 THEN OrStr(builtInDomain.v.customInstructions, Some("")).v ELSE ""
    IN  [roleDefinition |-> role, baseInstructions |-> instr]

\* promptComponent || builtInDomain, then `?.field || ""`
getDomainSelection(slug, promptComponent, customs) ==
    LET builtInDomain == findDomainBySlug(slug, Some(domains))
    IN  IF promptComponent.def
        THEN [roleDefinition   |-> OrStr(promptComponent.v.roleDefinition, Some("")).v,
              baseInstructions |-> OrStr(promptComponent.v.customInstructions, Some("")).v]
        ELSE IF builtInDomain.def
        THEN [roleDefinition   |-> OrStr(Some(builtInDomain.v.roleDefinition), Some("")).v,
              baseInstructions |-> OrStr(builtInDomain.v.customInstructions, Some("")).v]
        ELSE [roleDefinition |-> "", baseInstructions |-> ""]

\* the instruction-composition service: an opaque merge of its arguments
addCustomInstructions(base, global, cwd, slug) ==
    "compose(" \o base \o "," \o global \o "," \o cwd \o "," \o slug \o ")"

\* customDomainPrompts?.[domainSlug]
PromptFor(prompts, slug) ==
    IF prompts.def /\ slug \in DOMAIN prompts.v THEN Some(prompts.v[slug]) ELSE None

\* promptComponent?.field
FieldOf(component, field) == IF component.def THEN component.v[field] ELSE None

baseDomainOf(slug, customs) ==
    LET first  == getDomainBySlug(slug, customs)
        second == FindBySlug(domains, slug)
    IN  IF first.def THEN first.v
        ELSE IF second.def THEN second.v
        ELSE domains[1]

getFullDomainDetails(slug, customs, prompts, options) ==
    LET baseDomain      == baseDomainOf(slug, customs)
        promptComponent == PromptFor(prompts, slug)
        baseCustomInstructions ==
            OrStr(FieldOf(promptComponent, "customInstructions"),
                  OrStr(baseDomain.customInstructions, Some(""))).v
        baseWhenToUse ==
            OrStr(FieldOf(promptComponent, "whenToUse"),
                  OrStr(baseDomain.whenToUse, Some(""))).v
        fullCustomInstructions ==
            IF options.def /\ TruthyStr(options.v.cwd)
            THEN addCustomInstructions(baseCustomInstructions,
                                       OrStr(options.v.globalCustomInstructions, Some("")).v,
                                       options.v.cwd.v, slug)
            ELSE baseCustomInstructions
    IN  [baseDomain EXCEPT
            !.roleDefinition = OrStr(FieldOf(promptComponent, "roleDefinition"),
                                     Some(baseDomain.roleDefinition)).v,
            !.whenToUse = Some(baseWhenToUse),
            !.customInstructions = Some(fullCustomInstructions)]

-----------------------------------------------------------------------------
(* The capability gate *)

Return(v) == [kind |-> "return", value |-> v]

Throw(e) == [kind |-> "throw", error |-> e]

Pending == [kind |-> "pending"]

FileRestrictionError(domain, pattern, description, filePath) ==
    [name |-> "FileRestrictionError",
     message |-> <<"This domain (", domain,
                   ") can only edit files matching pattern: ", pattern,
                   IF TruthyStr(description) THEN <<" (", description.v, ")">> ELSE <<>>,
                   ". Got: ", filePath>>]

\* toolParams?.path and toolParams.diff || toolParams.content || toolParams.operations
ParamPath(params) == IF params.def THEN params.v.path ELSE None

HasWritePayload(params) ==
    \/ TruthyStr(params.v.diff)
    \/ TruthyStr(params.v.content)
    \/ TruthyStr(params.v.operations)

\* a group entry that tests the path of every invocation, write or not
decideGroup_anyPath(domain, group, params) ==
    LET options  == getGroupOptions(group)
        filePath == ParamPath(params)
    IN  IF ~options.def
           THEN Return(TRUE)
        ELSE IF /\ getGroupName(group) = "edit"
                /\ TruthySeq(options.v.fileRegex)
                /\ TruthySeq(filePath)
                /\ ~doesFileMatchRegex(filePath.v, options.v.fileRegex.v)
           THEN Throw(FileRestrictionError(domain.name, options.v.fileRegex.v,
                                           options.v.description, filePath.v))
        ELSE Return(TRUE)

\* what one group entry decides for a tool it contains
decideGroup(domain, group, params) ==
    LET groupName == getGroupName(group)
        options   == getGroupOptions(group)
        filePath  == ParamPath(params)
    IN  IF ~options.def
           THEN Return(TRUE)
        ELSE IF /\ groupName = "edit"
                /\ TruthySeq(options.v.fileRegex)
                /\ TruthySeq(filePath)
                /\ HasWritePayload(params)
                /\ ~doesFileMatchRegex(filePath.v, options.v.fileRegex.v)
           THEN Throw(FileRestrictionError(domain.name, options.v.fileRegex.v,
                                           options.v.description, filePath.v))
        ELSE Return(TRUE)

\* a loop in which a later containing group overrides an earlier one
RECURSIVE checkGroups_lastWins(_, _, _, _)
checkGroups_lastWins(domain, groups, t, params) ==
    IF groups = <<>> THEN Return(FALSE)
    ELSE LET group == groups[Len(groups)]
         IN  IF t \notin toolGroups[getGroupName(group)]
                THEN checkGroups_lastWins(domain, SubSeq(groups, 1, Len(groups) - 1), t, params)
             ELSE decideGroup(domain, group, params)

\* the for-loop over domain.groups
RECURSIVE checkGroups(_, _, _, _)
checkGroups(domain, groups, t, params) ==
    IF groups = <<>> THEN Return(FALSE)
    ELSE LET group       == Head(groups)
             groupConfig == toolGroups[getGroupName(group)]
         IN  IF t \notin groupConfig
                THEN checkGroups(domain, Tail(groups), t, params)
             ELSE decideGroup(domain, group, params)

\* experiments[tool] read as a condition
FlagSet(map, key) == key \in DOMAIN map /\ map[key]

\* if (experiments && Object.values(EXPERIMENT_IDS).includes(tool)) { if (!experiments[tool]) ... }
experimentDenies(t, flags) ==
    flags.def /\ t \in EXPERIMENT_IDS /\ ~FlagSet(flags.v, t)

requirementsDeny_objectOnly(t, requirements) ==
    requirements.kind = "object" /\ t \in DOMAIN requirements.map
                                 /\ ~requirements.map[t]

\* the toolRequirements check: an object marking the tool falsy, or the boolean false
requirementsDeny(t, requirements) ==
    \/ /\ requirements.kind = "object"
       /\ t \in DOMAIN requirements.map
       /\ ~requirements.map[t]
    \/ /\ requirements.kind = "boolean"
       /\ requirements.value = FALSE

\* everything after the always-available test
gateAfterAlwaysAvailable(t, slug, customs, requirements, params, flags) ==
    IF experimentDenies(t, flags) THEN Return(FALSE)
    ELSE IF requirementsDeny(t, requirements) THEN Return(FALSE)
    ELSE LET domain == getDomainBySlug(slug, customs)
         IN  IF ~domain.def THEN Return(FALSE)
             ELSE checkGroups(domain.v, domain.v.groups, t, params)

isToolAllowedForDomain_requirementsFirst(t, slug, customs, requirements, params, flags) ==
    IF requirementsDeny(t, requirements) THEN Return(FALSE)
    ELSE IF t \in ALWAYS_AVAILABLE_TOOLS THEN Return(TRUE)
    ELSE gateAfterAlwaysAvailable(t, slug, customs, requirements, params, flags)

isToolAllowedForDomain(t, slug, customs, requirements, params, flags) ==
    IF t \in ALWAYS_AVAILABLE_TOOLS THEN Return(TRUE)
    ELSE gateAfterAlwaysAvailable(t, slug, customs, requirements, params, flags)

-----------------------------------------------------------------------------
(* Inputs of the gate *)

GateTools == {"attempt_completion", "read_file", "write_to_file",
              "insert_content", "powerSteering"}

GateCustomPool == {CustomHealthcare, CustomLegal}

MdPath == <<"n", ".", "m", "d">>

TsPath == <<"n", ".", "t", "s">>

PathChoices == {None, Some(<<>>), Some(MdPath), Some(TsPath)}

Params(path, diff, content, operations) ==
    [path |-> path, diff |-> diff, content |-> content, operations |-> operations]

ParamChoices ==
    {None} \cup
    {Some(Params(p, None, None, None)) : p \in PathChoices} \cup
    {Some(Params(p, Some("@@"), None, None)) : p \in PathChoices} \cup
    {Some(Params(p, None, Some("text"), None)) : p \in PathChoices} \cup
    {Some(Params(p, None, Some(""), None)) : p \in PathChoices} \cup
    {Some(Params(p, None, None, Some("ops"))) : p \in PathChoices}

NoRequirements == [kind |-> "undefined"]

BooleanRequirements(b) == [kind |-> "boolean", value |-> b]

ObjectRequirements(m) == [kind |-> "object", map |-> m]

RequirementChoices ==
    {NoRequirements, BooleanRequirements(FALSE),
     ObjectRequirements(<<>>),
     ObjectRequirements([x \in {"write_to_file"} |-> FALSE]),
     ObjectRequirements([x \in {"write_to_file"} |-> TRUE]),
     ObjectRequirements([x \in {"attempt_completion", "insert_content"} |-> FALSE])}

ExperimentChoices ==
    {None, Some(<<>>),
     Some([x \in {"insert_content"} |-> TRUE]),
     Some([x \in {"insert_content"} |-> FALSE])}

-----------------------------------------------------------------------------
(* Specification of the gate: one call on drawn inputs *)

NoCall == [op |-> "none"]

CatalogueIdle ==
    /\ customDomainPrompts = None
    /\ detailOptions = None
    /\ call = NoCall
    /\ remembered = None

\* no tool handler is running
ToolsIdle ==
    /\ block = None
    /\ cline = None
    /\ provider = None
    /\ events = <<>>
    /\ pc = "done"

\* no CodeIndexConfigManager has been constructed
ConfigIdle ==
    /\ persisted = None
    /\ manager = None
    /\ loadedConfig = None
    /\ configCall = NoCall

RetrieverIdle ==
    /\ faissClient = 0
    /\ loadedDomain = None
    /\ clients = <<>>
    /\ retrievals = <<>>
    /\ lastFailure = 0
    /\ faissCall = NoCall

RestIdle ==
    /\ promptOverride = None
    /\ ToolsIdle
    /\ ConfigIdle
    /\ RetrieverIdle

InitGate ==
    /\ domains \in BuiltInLists
    /\ toolGroups \in TOOL_GROUPS
    /\ tool \in GateTools
    /\ domainSlug \in Slugs
    /\ customDomains \in SeqsUpTo(GateCustomPool, MaxGateCustom)
    /\ toolRequirements \in RequirementChoices
    /\ toolParams \in ParamChoices
    /\ experiments \in ExperimentChoices
    /\ gateResult = Pending
    /\ CatalogueIdle
    /\ RestIdle

IsToolAllowedForDomain ==
    /\ gateResult = Pending
    /\ gateResult' = isToolAllowedForDomain(tool, domainSlug, customDomains,
                                            toolRequirements, toolParams, experiments)
    /\ UNCHANGED <<domains, toolGroups, tool, domainSlug, customDomains,
                   toolRequirements, toolParams, experiments, catVars,
                   restVars>>

NextGate == IsToolAllowedForDomain

SpecGate == InitGate /\ [][NextGate]_vars

-----------------------------------------------------------------------------
(* Properties of the gate *)

GateDone == gateResult # Pending

Entries(list) == {list[i] : i \in 1..Len(list)}

\* the domain a custom-over-built-in resolution of the slug yields
CustomOrBuiltIn(slug, customs) ==
    Coalesce(FindBySlug(customs, slug), FindBySlug(domains, slug))

\* neither the experiment flags nor the requirements stand in the way
NothingDisabled ==
    /\ tool \notin ALWAYS_AVAILABLE_TOOLS
    /\ (tool \in EXPERIMENT_IDS => experiments.def /\ FlagSet(experiments.v, tool))
    /\ toolRequirements = NoRequirements

ContainingGroups(d, t) ==
    {i \in 1..Len(d.groups) : t \in toolGroups[d.groups[i].name]}

\* path plus diff, content or operations
WriteInvocation ==
    /\ toolParams.def
    /\ TruthySeq(toolParams.v.path)
    /\ HasWritePayload(toolParams)

RestrictedEdit(entry) ==
    entry.tuple /\ entry.name = "edit" /\ TruthySeq(entry.options.fileRegex)

ExpectedError(d, entry) ==
    Throw(FileRestrictionError(d.name, entry.options.fileRegex.v,
                               entry.options.description, toolParams.v.path.v))

\* C1: a tool of the always-available set is allowed whatever the domain
\* slug, custom domains, requirements, parameters and experiment flags are.
C1_AlwaysAvailableAllowed ==
    (GateDone /\ tool \in ALWAYS_AVAILABLE_TOOLS) => gateResult = Return(TRUE)

C1_Witness ==
    /\ GateDone
    /\ tool \in ALWAYS_AVAILABLE_TOOLS
    /\ domainSlug = "nowhere"
    /\ toolRequirements = BooleanRequirements(FALSE)
    /\ experiments = Some(<<>>)
    /\ gateResult = Return(TRUE)

\* C2: for a domain (built-in or custom) whose only group granting the edit
\* tool is (edit, {fileRegex: R}), a write invocation raises
\* FileRestrictionError with the domain's name, R, the description and the
\* path when the path does not match R, and returns true when it matches.
C2_FileRegexEnforced ==
    \A d \in Entries(domains) \cup Entries(customDomains) :
        ( /\ GateDone
          /\ NothingDisabled
          /\ CustomOrBuiltIn(domainSlug, customDomains) = Some(d)
          /\ tool \in toolGroups["edit"]
          /\ Cardinality(ContainingGroups(d, tool)) = 1
          /\ \A i \in ContainingGroups(d, tool) : RestrictedEdit(d.groups[i])
          /\ WriteInvocation )
        => \A i \in ContainingGroups(d, tool) :
              gateResult =
                 IF RegExpTest(d.groups[i].options.fileRegex.v, toolParams.v.path.v)
                 THEN Return(TRUE)
                 ELSE ExpectedError(d, d.groups[i])

\* C3: the slug is resolved among built-in and custom domains: for a slug
\* found only in customDomains, a tool granted by a group of that custom
\* domain is allowed.
C3_CustomSlugResolved ==
    \A d \in Entries(customDomains) :
        ( /\ GateDone
          /\ NothingDisabled
          /\ d.slug = domainSlug
          /\ ~FindBySlug(domains, domainSlug).def
          /\ \E i \in ContainingGroups(d, tool) : ~d.groups[i].tuple
          /\ \A i \in ContainingGroups(d, tool) : ~d.groups[i].tuple )
        => gateResult = Return(TRUE)

\* what the entry alone decides
DecidedBy(d, entry) ==
    IF RestrictedEdit(entry) /\ WriteInvocation
       /\ ~RegExpTest(entry.options.fileRegex.v, toolParams.v.path.v)
    THEN ExpectedError(d, entry)
    ELSE Return(TRUE)

Earliest(S) == CHOOSE i \in S : \A j \in S : i <= j

SeveralGroupsContainTool ==
    /\ GateDone
    /\ NothingDisabled
    /\ getDomainBySlug(domainSlug, customDomains).def
    /\ Cardinality(ContainingGroups(getDomainBySlug(domainSlug, customDomains).v, tool)) >= 2

\* C4: when several groups of the resolved domain contain the tool, the
\* outcome is the one the earliest declared containing group decides; the
\* options of later containing groups do not matter.
C4_EarliestGroupDecides ==
    SeveralGroupsContainTool =>
        LET d == getDomainBySlug(domainSlug, customDomains).v
        IN  gateResult = DecidedBy(d, d.groups[Earliest(ContainingGroups(d, tool))])

\* the earliest group restricts and raises although a later bare group
\* contains the tool
C4_Witness ==
    /\ SeveralGroupsContainTool
    /\ gateResult.kind = "throw"
    /\ LET d == getDomainBySlug(domainSlug, customDomains).v
       IN  \E i \in ContainingGroups(d, tool) : ~d.groups[i].tuple

\* C5: a tool outside the always-available set is denied when the
\* requirements map gives it a falsy value, and every such tool is denied
\* when the requirements value is the boolean false.
C5_RequirementsDeny ==
    ( /\ GateDone
      /\ tool \notin ALWAYS_AVAILABLE_TOOLS
      /\ \/ toolRequirements = BooleanRequirements(FALSE)
         \/ /\ toolRequirements.kind = "object"
            /\ tool \in DOMAIN toolRequirements.map
            /\ toolRequirements.map[tool] = FALSE )
    => gateResult = Return(FALSE)

\* the boolean false denies a tool that a group of the domain grants
C5_Witness ==
    /\ GateDone
    /\ toolRequirements = BooleanRequirements(FALSE)
    /\ tool = "read_file"
    /\ experiments = None
    /\ checkGroups(domains[1], domains[1].groups, tool, toolParams) = Return(TRUE)
    /\ domainSlug = domains[1].slug
    /\ gateResult = Return(FALSE)

\* C6: a tool that is an experiment identifier and not always available is
\* denied whenever its flag is false or absent, including when no flags map
\* is supplied, even if a group of the domain grants it.
C6_ExperimentOffDenies ==
    ( /\ GateDone
      /\ tool \in EXPERIMENT_IDS
      /\ tool \notin ALWAYS_AVAILABLE_TOOLS
      /\ (experiments.def => ~FlagSet(experiments.v, tool)) )
    => gateResult = Return(FALSE)

-----------------------------------------------------------------------------
(* Specification of the catalogue: calls in any order, the custom domains  *)
(* held by the configuration store changing between them                    *)

CatalogueBuiltIns == {ShippedDomains}

\* lists of distinct custom domains; two of the pool share a slug
CustomLists ==
    {c \in SeqsUpTo(CustomPool, MaxCustomDomains) :
        \A i, j \in 1..Len(c) : i # j => c[i] # c[j]}

HealthcarePrompt == PromptComponent(Some("override role"), None, Some(""))

LegalPrompt == PromptComponent(None, Some("override when"), Some("override instructions"))

PromptComponentChoices == {None, Some(HealthcarePrompt), Some(LegalPrompt)}

PromptMapChoices ==
    {None,
     Some([x \in {"healthcare"} |-> HealthcarePrompt]),
     Some([x \in {"healthcare", "legal"} |->
              IF x = "legal" THEN LegalPrompt ELSE HealthcarePrompt])}

DetailOptions(cwd, global) == [cwd |-> cwd, globalCustomInstructions |-> global]

OptionChoices == {None, Some(DetailOptions(Some("/work"), Some("global rules")))}

CatalogueSlugs == {"healthcare", "legal"}

CataloguePrompts == {None, Some([x \in {"healthcare"} |-> HealthcarePrompt])}

CatalogueComponents == {None, Some(HealthcarePrompt)}

GateIdle ==
    /\ tool = "attempt_completion"
    /\ domainSlug = "healthcare"
    /\ toolRequirements = NoRequirements
    /\ toolParams = None
    /\ experiments = None
    /\ gateResult = Pending

InitCatalogue ==
    /\ domains \in CatalogueBuiltIns
    /\ toolGroups = DisjointToolGroups
    /\ customDomains \in CustomLists
    /\ GateIdle
    /\ CatalogueIdle
    /\ RestIdle

\* the configuration store hands out another custom-domain list
SetCustomDomains ==
    /\ customDomains' \in CustomLists
    /\ customDomains' # customDomains
    /\ call' = NoCall
    /\ UNCHANGED <<domains, toolGroups, tool, domainSlug, toolRequirements,
                   toolParams, experiments, gateResult, customDomainPrompts,
                   detailOptions, remembered,
                   restVars>>

GetAllDomains ==
    \E arg \in {None, Some(customDomains)} :
        LET r == getAllDomains(arg)
        IN  /\ call' = [op |-> "getAllDomains", customDomains |-> arg,
                        returned |-> r.returned]
            /\ domains' = r.domains
            /\ remembered' =
                  IF ~remembered.def
                  THEN Some([customDomains |-> arg, returned |-> r.returned,
                             others |-> FALSE])
                  ELSE IF arg # remembered.v.customDomains
                  THEN Some([remembered.v EXCEPT !.others = TRUE])
                  ELSE remembered
            /\ UNCHANGED <<toolGroups, gateVars, customDomainPrompts, detailOptions,
                   restVars>>

GetFullDomainDetails ==
    \E slug \in CatalogueSlugs, prompts \in CataloguePrompts, opts \in {None} :
        /\ call' = [op |-> "getFullDomainDetails", domainSlug |-> slug,
                    customDomainPrompts |-> prompts, options |-> opts,
                    returned |-> getFullDomainDetails(slug, Some(customDomains),
                                                      prompts, opts)]
        /\ UNCHANGED <<domains, toolGroups, gateVars, customDomainPrompts,
                       detailOptions, remembered,
                   restVars>>

GetDomainSelection ==
    \E slug \in CatalogueSlugs, component \in CatalogueComponents :
        /\ call' = [op |-> "getDomainSelection", domain |-> slug,
                    promptComponent |-> component,
                    returned |-> getDomainSelection(slug, component, Some(customDomains))]
        /\ UNCHANGED <<domains, toolGroups, gateVars, customDomainPrompts,
                       detailOptions, remembered,
                   restVars>>

NextCatalogue ==
    \/ SetCustomDomains
    \/ GetAllDomains
    \/ GetFullDomainDetails
    \/ GetDomainSelection

SpecCatalogue == InitCatalogue /\ [][NextCatalogue]_vars

-----------------------------------------------------------------------------
(* Specification of getFullDomainDetails: one call on drawn inputs *)

InitDetails ==
    /\ domains \in BuiltInLists
    /\ toolGroups = DisjointToolGroups
    /\ customDomains \in CustomLists
    /\ tool = "attempt_completion"
    /\ domainSlug \in Slugs
    /\ toolRequirements = NoRequirements
    /\ toolParams = None
    /\ experiments = None
    /\ gateResult = Pending
    /\ customDomainPrompts \in PromptMapChoices
    /\ detailOptions \in OptionChoices
    /\ call = NoCall
    /\ remembered = None
    /\ RestIdle

CallGetFullDomainDetails ==
    /\ call = NoCall
    /\ call' = [op |-> "getFullDomainDetails",
                returned |-> getFullDomainDetails(domainSlug, Some(customDomains),
                                                  customDomainPrompts, detailOptions)]
    /\ UNCHANGED <<domains, toolGroups, gateVars, customDomainPrompts,
                   detailOptions, remembered,
                   restVars>>

NextDetails == CallGetFullDomainDetails

SpecDetails == InitDetails /\ [][NextDetails]_vars

-----------------------------------------------------------------------------
(* Properties of the catalogue *)

UniqueSlugs(list) ==
    \A i, j \in 1..Len(list) : list[i].slug = list[j].slug => i = j

HasSlug(list, slug) == \E i \in 1..Len(list) : list[i].slug = slug

ArgList(arg) == IF arg.def THEN arg.v ELSE <<>>

\* built-ins in order, each replaced by the custom domain of its slug if
\* there is one, then the custom domains of new slugs in input order
ExpectedMerge(customs) ==
    LET IsNew(c) == ~HasSlug(domains, c.slug)
    IN  [i \in 1..Len(domains) |->
            IF HasSlug(customs, domains[i].slug)
            THEN FindBySlug(customs, domains[i].slug).v
            ELSE domains[i]]
        \o SelectSeq(customs, IsNew)

C8_SameResultEachTime ==
    ( /\ call.op = "getAllDomains"
      /\ remembered.def
      /\ remembered.v.customDomains = call.customDomains )
    => call.returned = remembered.v.returned

\* the call repeats the first one after a merge of another custom list
C8_Witness ==
    /\ call.op = "getAllDomains"
    /\ remembered.def
    /\ remembered.v.others
    /\ remembered.v.customDomains = call.customDomains
    /\ call.customDomains.def
    /\ Len(call.customDomains.v) = 2
    /\ call.returned = remembered.v.returned

\* C9: no getAllDomains, getFullDomainDetails or getDomainSelection call
\* changes the built-in list.
C9_BuiltInsUnchanged == [][domains' = domains]_vars

\* a merge that overrode or appended has returned, the built-ins are intact
C9_Witness ==
    /\ call.op = "getAllDomains"
    /\ call.customDomains.def
    /\ call.returned # domains
    /\ domains \in CatalogueBuiltIns
    /\ remembered.def
    /\ remembered.v.others

\* C10: the base of getFullDomainDetails is the custom domain of the slug
\* if there is one, else the built-in of the slug, else the first
\* built-in; slug, name and groups of the result are those of the base.
C10_BaseCustomFirst ==
    call.op = "getFullDomainDetails" =>
        LET found == CustomOrBuiltIn(domainSlug, customDomains)
            base  == IF found.def THEN found.v ELSE domains[1]
        IN  /\ call.returned.slug = base.slug
            /\ call.returned.name = base.name
            /\ call.returned.groups = base.groups

-----------------------------------------------------------------------------
(* The two tools that switch the domain programmatically:                  *)
(* switchDomainTool (core/tools/switchDomainTool.ts) and newTaskTool       *)
(* (core/tools/newTaskTool.ts).  A handler runs from one await to the next *)
(* in one step; `events` records, in order, the calls it makes on the      *)
(* task, on the provider and on its callbacks.  An awaited call on the     *)
(* provider either resolves or rejects; a rejection lands in the catch     *)
(* block, which calls handleError.                                         *)

\* shared/modes is not part of the sources at hand: the built-in mode
\* slugs, their default and the lookup follow the specification (a custom
\* mode is found before a built-in one).
BuiltInModes == {"code", "architect"}

defaultModeSlug == "code"

getModeBySlug(slug, customModes) ==
    IF customModes.def /\ slug \in customModes.v THEN Some(slug)
    ELSE IF slug \in BuiltInModes THEN Some(slug)
    ELSE None

Event(op, arg) == [op |-> op, arg |-> arg]

\* what the user answered to askApproval, as the handler receives it
Answered(didApprove) == Event("didApprove", IF didApprove THEN "yes" ELSE "no")

Did(op) == \E i \in 1..Len(events) : events[i].op = op

\* the optional parameter is missing or empty: `!param`
Missing(param) == ~TruthyStr(param)

\* (await cline.providerRef.deref()?.getState())?.field
StateField(field) == IF provider.def THEN provider.v[field] ELSE None

SwitchBlock(partial, domain_slug, reason) ==
    [name |-> "switch_domain", partial |-> partial,
     params |-> [domain_slug |-> domain_slug, reason |-> reason,
                 mode |-> None, domain |-> None, message |-> None]]

NewTaskBlock(partial, mode, domain, message) ==
    [name |-> "new_task", partial |-> partial,
     params |-> [domain_slug |-> None, reason |-> None,
                 mode |-> mode, domain |-> domain, message |-> message]]

ToolSlugChoices ==
    {None, Some(""), Some("healthcare"), Some("automobile"), Some("nowhere")}

ToolModeChoices == {None, Some("architect"), Some("reviewer"), Some("nomode")}

ToolBlocks ==
    {SwitchBlock(p, d, r) :
        p \in BOOLEAN, d \in ToolSlugChoices, r \in {None, Some("why")}}
    \cup
    {NewTaskBlock(p, m, d, t) :
        p \in BOOLEAN, m \in ToolModeChoices,
        d \in ToolSlugChoices \ {Some("")}, t \in {None, Some("do it")}}

ProviderStates ==
    [mode : {None, Some("code"), Some("architect")},
     domain : {None, Some("healthcare"), Some("automobile")},
     customModes : {None, Some({"reviewer"})}]

Task(mistakes, checkpoints) ==
    [consecutiveMistakeCount |-> mistakes, toolErrors |-> 0,
     enableCheckpoints |-> checkpoints, pausedModeSlug |-> None,
     pausedDomainSlug |-> None, isPaused |-> FALSE]

InitTools ==
    /\ domains = ShippedDomains
    /\ toolGroups = DisjointToolGroups
    /\ customDomains = <<>>
    /\ GateIdle
    /\ CatalogueIdle
    /\ promptOverride = None
    /\ ConfigIdle
    /\ RetrieverIdle
    /\ block \in ToolBlocks
    /\ cline \in {Task(n, c) : n \in 0..1, c \in BOOLEAN}
    /\ provider \in {None} \cup {Some(st) : st \in ProviderStates}
    /\ events = <<>>
    /\ pc = "start"

toolRest == <<domains, toolGroups, gateVars, catVars, promptOverride, configVars,
             retrieverVars>>

\* if (!param) { consecutiveMistakeCount++; recordToolError; pushToolResult(
\*   await sayAndCreateMissingParamError(...)); return }
MissingParam(name) ==
    /\ cline' = [cline EXCEPT !.consecutiveMistakeCount = @ + 1,
                              !.toolErrors = @ + 1]
    /\ events' = events \o <<Event("pushToolResult", "Missing parameter: " \o name)>>
    /\ pc' = "done"

\* switchDomainTool without the comparison with the active domain
SwitchDomainTool_noCurrentCheck ==
    /\ pc = "start"
    /\ block.name = "switch_domain"
    /\ LET domain_slug == block.params.domain_slug IN
       IF block.partial
       THEN /\ events' = events \o <<Event("ask", "partial")>>
            /\ pc' = "done"
            /\ UNCHANGED cline
       ELSE IF Missing(domain_slug)
       THEN MissingParam("domain_slug")
       ELSE IF ~getDomainBySlug(domain_slug.v, None).def
       THEN /\ cline' = [cline EXCEPT !.consecutiveMistakeCount = 0,
                                      !.toolErrors = @ + 1]
            /\ events' = events \o
                 <<Event("pushToolResult", "Invalid domain: " \o domain_slug.v)>>
            /\ pc' = "done"
       ELSE /\ cline' = [cline EXCEPT !.consecutiveMistakeCount = 0]
            /\ events' = events \o <<Event("askApproval", domain_slug.v)>>
            /\ pc' = "askApproval"
    /\ UNCHANGED <<block, provider, toolRest>>

\* switchDomainTool up to the approval request
SwitchDomainTool ==
    /\ pc = "start"
    /\ block.name = "switch_domain"
    /\ LET domain_slug == block.params.domain_slug IN
       IF block.partial
       THEN /\ events' = events \o <<Event("ask", "partial")>>
            /\ pc' = "done"
            /\ UNCHANGED cline
       ELSE IF Missing(domain_slug)
       THEN MissingParam("domain_slug")
       ELSE LET targetDomain == getDomainBySlug(domain_slug.v, None)
                currentDomain == Coalesce(StateField("domain"), Some(defaultDomainSlug)).v
            IN IF ~targetDomain.def
               THEN /\ cline' = [cline EXCEPT !.consecutiveMistakeCount = 0,
                                              !.toolErrors = @ + 1]
                    /\ events' = events \o
                         <<Event("pushToolResult", "Invalid domain: " \o domain_slug.v)>>
                    /\ pc' = "done"
               ELSE IF currentDomain = domain_slug.v
               THEN /\ cline' = [cline EXCEPT !.consecutiveMistakeCount = 0,
                                              !.toolErrors = @ + 1]
                    /\ events' = events \o
                         <<Event("pushToolResult", "Already in domain: " \o domain_slug.v)>>
                    /\ pc' = "done"
               ELSE /\ cline' = [cline EXCEPT !.consecutiveMistakeCount = 0]
                    /\ events' = events \o <<Event("askApproval", domain_slug.v)>>
                    /\ pc' = "askApproval"
    /\ UNCHANGED <<block, provider, toolRest>>

\* the handler's catch block
Rejected ==
    /\ events' = events \o <<Event("handleError", "")>>
    /\ pc' = "done"

\* the user answers switchDomainTool's request; on approval the handler
\* calls handleDomainSwitch on whatever the provider reference still holds
SwitchDomainApproval ==
    /\ pc = "askApproval"
    /\ block.name = "switch_domain"
    /\ \E didApprove \in BOOLEAN :
         IF ~didApprove
         THEN /\ pc' = "done"
              /\ events' = events \o <<Answered(didApprove)>>
         ELSE IF provider.def
         THEN /\ events' = events \o
                   <<Answered(didApprove),
                     Event("handleDomainSwitch", block.params.domain_slug.v)>>
              /\ pc' = "handleDomainSwitch"
         ELSE /\ events' = events \o
                   <<Answered(didApprove),
                     Event("pushToolResult", "Successfully switched")>>
              /\ pc' = "done"
    /\ UNCHANGED <<block, cline, provider, toolRest>>

SwitchDomainSwitched ==
    /\ pc = "handleDomainSwitch"
    /\ block.name = "switch_domain"
    /\ \/ /\ provider' = Some([provider.v EXCEPT
                                   !.domain = Some(block.params.domain_slug.v)])
          /\ events' = events \o <<Event("pushToolResult", "Successfully switched")>>
          /\ pc' = "done"
       \/ /\ Rejected
          /\ UNCHANGED provider
    /\ UNCHANGED <<block, cline, toolRest>>

\* the provider is only weakly referenced: it may be gone by the time the
\* handler looks at the reference again
ProviderCollected ==
    /\ pc = "askApproval"
    /\ provider.def
    /\ provider' = None
    /\ UNCHANGED <<block, cline, events, pc, toolRest>>

\* newTaskTool asking for approval without looking the mode up
NewTaskTool_noModeCheck ==
    /\ pc = "start"
    /\ block.name = "new_task"
    /\ LET mode == block.params.mode
           domain == block.params.domain
           message == block.params.message
       IN
       IF block.partial
       THEN /\ events' = events \o <<Event("ask", "partial")>>
            /\ pc' = "done"
            /\ UNCHANGED cline
       ELSE IF Missing(mode) THEN MissingParam("mode")
       ELSE IF Missing(domain) THEN MissingParam("domain")
       ELSE IF Missing(message) THEN MissingParam("message")
       ELSE /\ cline' = [cline EXCEPT !.consecutiveMistakeCount = 0]
            /\ events' = events \o <<Event("askApproval", domain.v)>>
            /\ pc' = "askApproval"
    /\ UNCHANGED <<block, provider, toolRest>>

\* newTaskTool up to the approval request
NewTaskTool ==
    /\ pc = "start"
    /\ block.name = "new_task"
    /\ LET mode == block.params.mode
           domain == block.params.domain
           message == block.params.message
       IN
       IF block.partial
       THEN /\ events' = events \o <<Event("ask", "partial")>>
            /\ pc' = "done"
            /\ UNCHANGED cline
       ELSE IF Missing(mode) THEN MissingParam("mode")
       ELSE IF Missing(domain) THEN MissingParam("domain")
       ELSE IF Missing(message) THEN MissingParam("message")
       ELSE LET targetMode == getModeBySlug(mode.v, StateField("customModes")) IN
            /\ cline' = [cline EXCEPT !.consecutiveMistakeCount = 0]
            /\ IF ~targetMode.def
               THEN /\ events' = events \o
                         <<Event("pushToolResult", "Invalid mode: " \o mode.v)>>
                    /\ pc' = "done"
               ELSE /\ events' = events \o <<Event("askApproval", domain.v)>>
                    /\ pc' = "askApproval"
    /\ UNCHANGED <<block, provider, toolRest>>

\* the user answers newTaskTool's request; on approval the handler saves a
\* checkpoint, remembers the active mode and domain and starts the mode switch
NewTaskApproval ==
    /\ pc = "askApproval"
    /\ block.name = "new_task"
    /\ \E didApprove \in BOOLEAN :
         IF ~didApprove \/ ~provider.def
         THEN /\ pc' = "done"
              /\ events' = events \o <<Answered(didApprove)>>
              /\ UNCHANGED cline
         ELSE /\ cline' = [cline EXCEPT
                   !.pausedModeSlug =
                       Coalesce(provider.v.mode, Some(defaultModeSlug)),
                   !.pausedDomainSlug =
                       Coalesce(provider.v.domain, Some(defaultDomainSlug))]
              /\ events' = events
                   \o <<Answered(didApprove)>>
                   \o (IF cline.enableCheckpoints
                       THEN <<Event("checkpointSave", "")>> ELSE <<>>)
                   \o <<Event("handleModeSwitch", block.params.mode.v)>>
              /\ pc' = "handleModeSwitch"
    /\ UNCHANGED <<block, provider, toolRest>>

NewTaskModeSwitched ==
    /\ pc = "handleModeSwitch"
    /\ \/ /\ provider' = Some([provider.v EXCEPT !.mode = Some(block.params.mode.v)])
          /\ events' = events \o
               <<Event("handleDomainSwitch", block.params.domain.v)>>
          /\ pc' = "handleDomainSwitch"
       \/ /\ Rejected
          /\ UNCHANGED provider
    /\ UNCHANGED <<block, cline, toolRest>>

\* the domain switch resolves; after the delay the handler creates the sub-task
NewTaskDomainSwitched ==
    /\ pc = "handleDomainSwitch"
    /\ block.name = "new_task"
    /\ \/ /\ provider' = Some([provider.v EXCEPT
                                   !.domain = Some(block.params.domain.v)])
          /\ events' = events \o
               <<Event("initClineWithTask", block.params.message.v)>>
          /\ pc' = "initClineWithTask"
       \/ /\ Rejected
          /\ UNCHANGED provider
    /\ UNCHANGED <<block, cline, toolRest>>

NewTaskSpawned ==
    /\ pc = "initClineWithTask"
    /\ \/ /\ events' = events \o
               <<Event("emit", "taskSpawned"),
                 Event("pushToolResult", "Successfully created new task"),
                 Event("emit", "taskPaused")>>
          /\ cline' = [cline EXCEPT !.isPaused = TRUE]
          /\ pc' = "done"
       \/ /\ Rejected
          /\ UNCHANGED cline
    /\ UNCHANGED <<block, provider, toolRest>>

NextTools ==
    \/ SwitchDomainTool
    \/ SwitchDomainApproval
    \/ SwitchDomainSwitched
    \/ ProviderCollected
    \/ NewTaskTool
    \/ NewTaskApproval
    \/ NewTaskModeSwitched
    \/ NewTaskDomainSwitched
    \/ NewTaskSpawned

SpecTools == InitTools /\ [][NextTools]_vars

(* C11: a programmatic domain switch (switchDomainTool, or the switch made *)
(* by newTaskTool) asked to go to a slug that matches no known domain      *)
(* never calls handleDomainSwitch with that slug, and once the handler has *)
(* got past its parameter and mode checks it reports an invalid-domain     *)
(* error.  The code of newTaskTool breaks this.                            *)
KnownDomain(slug) == \E i \in 1..Len(domains) : domains[i].slug = slug

RequestedSlug ==
    IF block.name = "switch_domain" THEN block.params.domain_slug
    ELSE block.params.domain

InvalidDomainReported ==
    \E i \in 1..Len(events) :
        /\ events[i].op = "pushToolResult"
        /\ events[i].arg = "Invalid domain: " \o RequestedSlug.v

\* the run got as far as asking for approval or further
PastChecks == Did("askApproval")

C11_UnknownSlugRefused ==
    /\ \A i \in 1..Len(events) :
           events[i].op = "handleDomainSwitch" => KnownDomain(events[i].arg)
    /\ (pc = "done" /\ PastChecks /\ ~KnownDomain(RequestedSlug.v))
           => InvalidDomainReported

-----------------------------------------------------------------------------
(* The accessors of the catalogue: the strict getDomainConfig, the         *)
(* convenience accessors getRoleDefinition / getWhenToUse /                *)
(* getCustomInstructions, and getDomainSelection.  Each is examined as a   *)
(* function of its arguments and of the built-in list.                     *)

NotFound(slug) == Throw("No domain found for slug: " \o slug)

\* falls back to the default domain instead of throwing
getDomainConfig_defaulting(slug, customs) ==
    LET domain == getDomainBySlug(slug, customs)
    IN  IF ~domain.def THEN Return(domains[1]) ELSE Return(domain.v)

getDomainConfig(slug, customs) ==
    LET domain == getDomainBySlug(slug, customs)
    IN  IF ~domain.def THEN NotFound(slug) ELSE Return(domain.v)

getRoleDefinition(slug, customs) ==
    LET domain == getDomainBySlug(slug, customs)
    IN  IF ~domain.def THEN "" ELSE domain.v.roleDefinition

getWhenToUse(slug, customs) ==
    LET domain == getDomainBySlug(slug, customs)
    IN  IF ~domain.def THEN "" ELSE Coalesce(domain.v.whenToUse, Some("")).v

getCustomInstructions(slug, customs) ==
    LET domain == getDomainBySlug(slug, customs)
    IN  IF ~domain.def THEN "" ELSE Coalesce(domain.v.customInstructions, Some("")).v

InitAccessors ==
    /\ domains \in BuiltInLists
    /\ toolGroups = DisjointToolGroups
    /\ customDomains \in CustomLists
    /\ tool = "attempt_completion"
    /\ domainSlug \in Slugs
    /\ toolRequirements = NoRequirements
    /\ toolParams = None
    /\ experiments = None
    /\ gateResult = Pending
    /\ CatalogueIdle
    /\ promptOverride \in PromptComponentChoices
    /\ ToolsIdle
    /\ ConfigIdle
    /\ RetrieverIdle

Answer(op, returned) ==
    /\ call = NoCall
    /\ call' = [op |-> op, returned |-> returned]
    /\ UNCHANGED <<domains, toolGroups, gateVars, customDomainPrompts,
                   detailOptions, remembered, restVars>>

CallGetDomainConfig ==
    Answer("getDomainConfig", getDomainConfig(domainSlug, Some(customDomains)))

CallGetRoleDefinition ==
    Answer("getRoleDefinition", getRoleDefinition(domainSlug, Some(customDomains)))

CallGetWhenToUse ==
    Answer("getWhenToUse", getWhenToUse(domainSlug, Some(customDomains)))

CallGetCustomInstructions ==
    Answer("getCustomInstructions",
           getCustomInstructions(domainSlug, Some(customDomains)))

CallGetDomainSelection ==
    Answer("getDomainSelection",
           getDomainSelection(domainSlug, promptOverride, Some(customDomains)))

NextAccessors ==
    \/ CallGetDomainConfig
    \/ CallGetRoleDefinition
    \/ CallGetWhenToUse
    \/ CallGetCustomInstructions
    \/ CallGetDomainSelection

SpecAccessors == InitAccessors /\ [][NextAccessors]_vars

\* the built-in domain the slug matches, if any
Matched == FindBySlug(domains, domainSlug)

ValueOr(field) == IF field.def THEN field.v ELSE ""

(* C12: for a slug that matches no domain getDomainConfig fails with a     *)
(* not-found error while getRoleDefinition, getWhenToUse and               *)
(* getCustomInstructions return the empty string; for a slug that matches  *)
(* a domain each returns that domain's value, the empty string standing    *)
(* for an unset optional field.  The domains matched are the built-in      *)
(* ones, as for the lookup these accessors share.                          *)
C12_StrictAndConvenience ==
    /\ call.op = "getDomainConfig" =>
         call.returned = IF Matched.def THEN Return(Matched.v)
                         ELSE NotFound(domainSlug)
    /\ call.op = "getRoleDefinition" =>
         call.returned = IF Matched.def THEN Matched.v.roleDefinition ELSE ""
    /\ call.op = "getWhenToUse" =>
         call.returned = IF Matched.def THEN ValueOr(Matched.v.whenToUse) ELSE ""
    /\ call.op = "getCustomInstructions" =>
         call.returned = IF Matched.def THEN ValueOr(Matched.v.customInstructions)
                         ELSE ""

\* the strict accessor was asked for a slug no domain has, and threw
C12_Witness ==
    /\ call.op = "getDomainConfig"
    /\ ~Matched.def
    /\ call.returned.kind = "throw"

Selection(role, instr) == [roleDefinition |-> role, baseInstructions |-> instr]

\* a field of the override or of a domain, the empty string when it is
\* unset or empty
TextOf(field) == IF TruthyStr(field) THEN field.v ELSE ""

MatchedCustom == FindBySlug(customDomains, domainSlug)

(* C14: without an override, getDomainSelection gives a custom domain with *)
(* the requested slug precedence over the built-in domain of that slug,    *)
(* and when neither has the slug it uses the default domain's role         *)
(* definition and instructions.  The code does neither.                    *)
C14_CustomThenDefault ==
    (call.op = "getDomainSelection" /\ ~promptOverride.def) =>
        call.returned =
            LET chosen == IF MatchedCustom.def THEN MatchedCustom.v
                          ELSE IF Matched.def THEN Matched.v
                          ELSE domains[1]
            IN  Selection(chosen.roleDefinition, TextOf(chosen.customInstructions))

-----------------------------------------------------------------------------
(* CodeIndexConfigManager (services/code-index/config-manager.ts): the     *)
(* normalised configuration of the code index, reloaded from what the      *)
(* context proxy holds, and the decision whether a reload requires the     *)
(* indexer to restart.  A score is held in hundredths (0.4 is 40).         *)

\* ./constants and shared/embeddingModels are not part of the sources at
\* hand: the fixed minimum score, the default model of each provider and
\* the table of known vector dimensions follow the specification.
SEARCH_MIN_SCORE == 40

getDefaultModelId(embedder) ==
    IF embedder = "ollama" THEN "nomic-embed-text:latest"
    ELSE "text-embedding-3-small"

KnownDimensions(embedder) ==
    IF embedder = "ollama"
    THEN [x \in {"nomic-embed-text:latest", "nomic-embed-text", "mxbai-embed-large"} |->
            IF x = "mxbai-embed-large" THEN 1024 ELSE 768]
    ELSE [x \in {"text-embedding-3-small", "text-embedding-ada-002",
                 "text-embedding-3-large"} |->
            IF x = "text-embedding-3-large" THEN 3072 ELSE 1536]

getModelDimension(embedder, modelId) ==
    IF modelId \in DOMAIN KnownDimensions(embedder)
    THEN Some(KnownDimensions(embedder)[modelId])
    ELSE None

\* the value stored under the global-state key "codebaseIndexConfig"
IndexConfig(enabled, embedder, baseUrl, modelId, type, url, apiKey, minScore) ==
    [codebaseIndexEnabled           |-> enabled,
     codebaseIndexEmbedderProvider  |-> embedder,
     codebaseIndexEmbedderBaseUrl   |-> baseUrl,
     codebaseIndexEmbedderModelId   |-> modelId,
     codebaseIndexVectorStoreType   |-> type,
     codebaseIndexVectorStoreUrl    |-> url,
     codebaseIndexVectorStoreApiKey |-> apiKey,
     codebaseIndexSearchMinScore    |-> minScore]

\* the object used when nothing is stored under "codebaseIndexConfig"
DefaultIndexConfig ==
    IndexConfig(Some(FALSE), Some("openai"), Some(""), Some(""),
                Some("qdrant"), Some("http://localhost:6333"), Some(""), Some(40))

\* everything the manager reads from the context proxy
Stored(config, openAiKey, compatBaseUrl, compatApiKey, compatDimension) ==
    [codebaseIndexConfig |-> config,
     codeIndexOpenAiKey |-> openAiKey,
     codebaseIndexOpenAiCompatibleBaseUrl |-> compatBaseUrl,
     codebaseIndexOpenAiCompatibleApiKey |-> compatApiKey,
     codebaseIndexOpenAiCompatibleModelDimension |-> compatDimension,
     codebaseIndexVectorStoreType |-> None,
     codebaseIndexVectorStoreUrl |-> None,
     codebaseIndexVectorStoreApiKey |-> None]

\* `x || false` on an optional boolean
TruthyBool(o) == o.def /\ o.v

\* the assignments of _loadAndSetConfiguration() once it has read `stored`
loadedFields(stored) ==
    LET codebaseIndexConfig == Coalesce(stored.codebaseIndexConfig,
                                        Some(DefaultIndexConfig)).v
        openAiKey == Coalesce(stored.codeIndexOpenAiKey, Some("")).v
        vectorStoreApiKey ==
            Coalesce(codebaseIndexConfig.codebaseIndexVectorStoreApiKey,
                Coalesce(stored.codebaseIndexVectorStoreApiKey, Some("")))
        vectorStoreUrl ==
            Coalesce(codebaseIndexConfig.codebaseIndexVectorStoreUrl,
                Coalesce(stored.codebaseIndexVectorStoreUrl, Some("")))
        vectorStoreType ==
            Coalesce(codebaseIndexConfig.codebaseIndexVectorStoreType,
                Coalesce(stored.codebaseIndexVectorStoreType, Some("qdrant")))
        openAiCompatibleBaseUrl ==
            Coalesce(stored.codebaseIndexOpenAiCompatibleBaseUrl, Some(""))
        openAiCompatibleApiKey ==
            Coalesce(stored.codebaseIndexOpenAiCompatibleApiKey, Some(""))
        embedder == codebaseIndexConfig.codebaseIndexEmbedderProvider
    IN  [isEnabled |-> TruthyBool(codebaseIndexConfig.codebaseIndexEnabled),
         vectorStoreType |-> vectorStoreType,
         vectorStoreUrl |-> vectorStoreUrl,
         vectorStoreApiKey |-> vectorStoreApiKey,
         openAiOptions |-> Some([openAiNativeApiKey |-> openAiKey]),
         searchMinScore |-> Some(SEARCH_MIN_SCORE),
         embedderProvider |->
            IF embedder = Some("ollama") THEN "ollama"
            ELSE IF embedder = Some("openai-compatible") THEN "openai-compatible"
            ELSE "openai",
         modelId |-> OrStr(codebaseIndexConfig.codebaseIndexEmbedderModelId, None),
         ollamaOptions |->
            Some([ollamaBaseUrl |-> codebaseIndexConfig.codebaseIndexEmbedderBaseUrl]),
         openAiCompatibleOptions |->
            IF TruthyStr(openAiCompatibleBaseUrl) /\ TruthyStr(openAiCompatibleApiKey)
            THEN Some([baseUrl |-> openAiCompatibleBaseUrl.v,
                       apiKey |-> openAiCompatibleApiKey.v,
                       modelDimension |->
                           stored.codebaseIndexOpenAiCompatibleModelDimension])
            ELSE None]

\* keeps the stored search-min-score when there is one
loadAndSetConfiguration_storedScore(stored) ==
    LET fields == loadedFields(stored)
        config == Coalesce(stored.codebaseIndexConfig, Some(DefaultIndexConfig)).v
    IN  [fields EXCEPT !.searchMinScore =
            Coalesce(config.codebaseIndexSearchMinScore, Some(SEARCH_MIN_SCORE))]

\* the fields after _loadAndSetConfiguration() has read `stored`
loadAndSetConfiguration(stored) == loadedFields(stored)

\* this.openAiCompatibleOptions?.field
CompatField(this, field) ==
    IF this.openAiCompatibleOptions.def
    THEN Some(this.openAiCompatibleOptions.v[field]) ELSE None

\* this.ollamaOptions?.ollamaBaseUrl
OllamaBaseUrl(this) ==
    IF this.ollamaOptions.def THEN this.ollamaOptions.v.ollamaBaseUrl ELSE None

\* this.openAiOptions?.openAiNativeApiKey
OpenAiKey(this) ==
    IF this.openAiOptions.def THEN Some(this.openAiOptions.v.openAiNativeApiKey)
    ELSE None

\* configured whatever the vector store holds
isConfigured_embedderOnly(this) ==
    IF this.embedderProvider = "openai" THEN TruthyStr(OpenAiKey(this))
    ELSE IF this.embedderProvider = "ollama" THEN TruthyStr(OllamaBaseUrl(this))
    ELSE IF this.embedderProvider = "openai-compatible"
    THEN TruthyStr(CompatField(this, "baseUrl")) /\ TruthyStr(CompatField(this, "apiKey"))
    ELSE FALSE

isConfigured(this) ==
    IF this.embedderProvider = "openai"
    THEN /\ TruthyStr(OpenAiKey(this))
         /\ TruthyStr(this.vectorStoreType)
         /\ TruthyStr(this.vectorStoreUrl)
    ELSE IF this.embedderProvider = "ollama"
    THEN /\ TruthyStr(OllamaBaseUrl(this))
         /\ TruthyStr(this.vectorStoreType)
         /\ TruthyStr(this.vectorStoreUrl)
    ELSE IF this.embedderProvider = "openai-compatible"
    THEN /\ TruthyStr(CompatField(this, "baseUrl"))
         /\ TruthyStr(CompatField(this, "apiKey"))
         /\ TruthyStr(this.vectorStoreType)
         /\ TruthyStr(this.vectorStoreUrl)
    ELSE FALSE

\* previousConfigSnapshot, captured by loadConfiguration before it reloads
PreviousConfigSnapshot(this) ==
    [enabled |-> this.isEnabled,
     configured |-> isConfigured(this),
     embedderProvider |-> this.embedderProvider,
     modelId |-> this.modelId,
     openAiKey |-> Coalesce(OpenAiKey(this), Some("")).v,
     ollamaBaseUrl |-> Coalesce(OllamaBaseUrl(this), Some("")).v,
     openAiCompatibleBaseUrl |-> Coalesce(CompatField(this, "baseUrl"), Some("")).v,
     openAiCompatibleApiKey |-> Coalesce(CompatField(this, "apiKey"), Some("")).v,
     openAiCompatibleModelDimension |->
        IF this.openAiCompatibleOptions.def
        THEN this.openAiCompatibleOptions.v.modelDimension ELSE None,
     vectorStoreType |-> Coalesce(this.vectorStoreType, Some("qdrant")).v,
     vectorStoreUrl |-> Coalesce(this.vectorStoreUrl, Some("http://localhost:6333")).v,
     vectorStoreApiKey |-> Coalesce(this.vectorStoreApiKey, Some("")).v]

\* compares the dimensions even when provider and resolved model are the same
hasVectorDimensionChanged_noShortcut(this, prevProvider, prevModelId) ==
    LET currentModelId ==
            Coalesce(this.modelId, Some(getDefaultModelId(this.embedderProvider))).v
        resolvedPrevModelId ==
            Coalesce(prevModelId, Some(getDefaultModelId(prevProvider))).v
        prevDimension == getModelDimension(prevProvider, resolvedPrevModelId)
        currentDimension == getModelDimension(this.embedderProvider, currentModelId)
    IN  IF ~prevDimension.def \/ ~currentDimension.def THEN TRUE
        ELSE prevDimension.v # currentDimension.v

\* takes any change of the resolved model for a change of dimension
hasVectorDimensionChanged_idsOnly(this, prevProvider, prevModelId) ==
    LET currentModelId ==
            Coalesce(this.modelId, Some(getDefaultModelId(this.embedderProvider))).v
        resolvedPrevModelId ==
            Coalesce(prevModelId, Some(getDefaultModelId(prevProvider))).v
    IN  ~(prevProvider = this.embedderProvider /\ resolvedPrevModelId = currentModelId)

\* _hasVectorDimensionChanged
hasVectorDimensionChanged(this, prevProvider, prevModelId) ==
    LET currentProvider == this.embedderProvider
        currentModelId ==
            Coalesce(this.modelId, Some(getDefaultModelId(currentProvider))).v
        resolvedPrevModelId ==
            Coalesce(prevModelId, Some(getDefaultModelId(prevProvider))).v
        prevDimension == getModelDimension(prevProvider, resolvedPrevModelId)
        currentDimension == getModelDimension(currentProvider, currentModelId)
    IN  IF prevProvider = currentProvider /\ resolvedPrevModelId = currentModelId
        THEN FALSE
        ELSE IF ~prevDimension.def \/ ~currentDimension.def THEN TRUE
        ELSE prevDimension.v # currentDimension.v

\* compares the credentials of every provider, current or not
settingsChanged_anyCredential(this, prev) ==
    \/ prev.embedderProvider # this.embedderProvider
    \/ hasVectorDimensionChanged(this, prev.embedderProvider, prev.modelId)
    \/ prev.openAiKey # Coalesce(OpenAiKey(this), Some("")).v
    \/ prev.ollamaBaseUrl # Coalesce(OllamaBaseUrl(this), Some("")).v
    \/ prev.openAiCompatibleBaseUrl #
          Coalesce(CompatField(this, "baseUrl"), Some("")).v
    \/ prev.openAiCompatibleApiKey #
          Coalesce(CompatField(this, "apiKey"), Some("")).v
    \/ prev.vectorStoreUrl #
          Coalesce(this.vectorStoreUrl, Some("http://localhost:6333")).v
    \/ prev.vectorStoreApiKey # Coalesce(this.vectorStoreApiKey, Some("")).v
    \/ prev.vectorStoreType # Coalesce(this.vectorStoreType, Some("qdrant")).v

\* ignores the vector store
settingsChanged_embedderOnly(this, prev) ==
    \/ prev.embedderProvider # this.embedderProvider
    \/ hasVectorDimensionChanged(this, prev.embedderProvider, prev.modelId)
    \/ /\ this.embedderProvider = "openai"
       /\ prev.openAiKey # Coalesce(OpenAiKey(this), Some("")).v
    \/ /\ this.embedderProvider = "ollama"
       /\ prev.ollamaBaseUrl # Coalesce(OllamaBaseUrl(this), Some("")).v
    \/ /\ this.embedderProvider = "openai-compatible"
       /\ \/ prev.openAiCompatibleBaseUrl #
                Coalesce(CompatField(this, "baseUrl"), Some("")).v
          \/ prev.openAiCompatibleApiKey #
                Coalesce(CompatField(this, "apiKey"), Some("")).v
          \/ prev.openAiCompatibleModelDimension #
                (IF this.openAiCompatibleOptions.def
                 THEN this.openAiCompatibleOptions.v.modelDimension ELSE None)

\* the checks inside `if (this.isEnabled || prevEnabled)`: provider,
\* dimension, the current provider's credentials, the vector store
settingsChanged(this, prev) ==
    \/ prev.embedderProvider # this.embedderProvider
    \/ hasVectorDimensionChanged(this, prev.embedderProvider, prev.modelId)
    \/ /\ this.embedderProvider = "openai"
       /\ prev.openAiKey # Coalesce(OpenAiKey(this), Some("")).v
    \/ /\ this.embedderProvider = "ollama"
       /\ prev.ollamaBaseUrl # Coalesce(OllamaBaseUrl(this), Some("")).v
    \/ /\ this.embedderProvider = "openai-compatible"
       /\ \/ prev.openAiCompatibleBaseUrl #
                Coalesce(CompatField(this, "baseUrl"), Some("")).v
          \/ prev.openAiCompatibleApiKey #
                Coalesce(CompatField(this, "apiKey"), Some("")).v
          \/ prev.openAiCompatibleModelDimension #
                (IF this.openAiCompatibleOptions.def
                 THEN this.openAiCompatibleOptions.v.modelDimension ELSE None)
    \/ prev.vectorStoreUrl #
          Coalesce(this.vectorStoreUrl, Some("http://localhost:6333")).v
    \/ prev.vectorStoreApiKey # Coalesce(this.vectorStoreApiKey, Some("")).v
    \/ prev.vectorStoreType # Coalesce(this.vectorStoreType, Some("qdrant")).v

\* 1. transition from disabled/unconfigured to enabled+configured
becameReady(this, prev) ==
    (~prev.enabled \/ ~prev.configured) /\ this.isEnabled /\ isConfigured(this)

\* 2. was disabled and still is
stillDisabled(this, prev) == ~prev.enabled /\ ~this.isEnabled

\* 3. was not ready before and is not ready now
stillNotReady(this, prev) == ~prev.configured /\ ~isConfigured(this)

\* looks at the settings only while the feature is enabled now
doesConfigChangeRequireRestart_enabledNow(this, prev) ==
    IF becameReady(this, prev) THEN TRUE
    ELSE IF stillDisabled(this, prev) THEN FALSE
    ELSE IF stillNotReady(this, prev) THEN FALSE
    ELSE IF this.isEnabled THEN settingsChanged(this, prev)
    ELSE FALSE

\* without the first rule
doesConfigChangeRequireRestart_noTransition(this, prev) ==
    IF stillDisabled(this, prev) THEN FALSE
    ELSE IF stillNotReady(this, prev) THEN FALSE
    ELSE IF this.isEnabled \/ prev.enabled THEN settingsChanged(this, prev)
    ELSE FALSE

\* looks at the settings before it looks at the enabled flags
doesConfigChangeRequireRestart_settingsFirst(this, prev) ==
    IF becameReady(this, prev) THEN TRUE
    ELSE IF settingsChanged(this, prev) THEN TRUE
    ELSE FALSE

doesConfigChangeRequireRestart(this, prev) ==
    IF becameReady(this, prev) THEN TRUE
    ELSE IF stillDisabled(this, prev) THEN FALSE
    ELSE IF stillNotReady(this, prev) THEN FALSE
    ELSE IF this.isEnabled \/ prev.enabled THEN settingsChanged(this, prev)
    ELSE FALSE

getConfig(this) ==
    [isEnabled |-> this.isEnabled,
     isConfigured |-> isConfigured(this),
     embedderProvider |-> this.embedderProvider,
     modelId |-> this.modelId,
     openAiOptions |-> this.openAiOptions,
     ollamaOptions |-> this.ollamaOptions,
     openAiCompatibleOptions |-> this.openAiCompatibleOptions,
     vectorStoreType |-> this.vectorStoreType,
     vectorStoreUrl |-> this.vectorStoreUrl,
     vectorStoreApiKey |-> this.vectorStoreApiKey,
     searchMinScore |-> this.searchMinScore]

\* loadConfiguration taking its snapshot after the fields were reloaded
loadConfiguration_snapshotAfter(this, stored) ==
    LET loaded == loadAndSetConfiguration(stored)
        previousConfigSnapshot == PreviousConfigSnapshot(loaded)
    IN  [fields |-> loaded,
         configSnapshot |-> previousConfigSnapshot,
         currentConfig |-> getConfig(loaded),
         requiresRestart |->
             doesConfigChangeRequireRestart(loaded, previousConfigSnapshot)]

\* what loadConfiguration returns when the manager holds `this` and the
\* context proxy holds `stored`; the manager holds `.fields` afterwards
loadConfiguration(this, stored) ==
    LET previousConfigSnapshot == PreviousConfigSnapshot(this)
        loaded == loadAndSetConfiguration(stored)
    IN  [fields |-> loaded,
         configSnapshot |-> previousConfigSnapshot,
         currentConfig |-> getConfig(loaded),
         requiresRestart |->
             doesConfigChangeRequireRestart(loaded, previousConfigSnapshot)]

(* The stored configurations examined: for each provider a complete,       *)
(* enabled configuration, and every configuration that differs from one   *)
(* of those in one setting; each of them also with the feature disabled.   *)

BaseConfig(embedder) ==
    Stored(Some(IndexConfig(Some(TRUE), Some(embedder), Some("http://ollama:11434"),
                            Some(""), Some("qdrant"), Some("http://qdrant:6333"),
                            Some("qk-1"), Some(40))),
           Some("sk-1"), Some("http://compat"), Some("ck-1"), None)

\* model ids to try with a provider: its default, one of the same
\* dimension, one of another dimension, one the table does not know
ModelChoices(embedder) ==
    IF embedder = "ollama"
    THEN {"nomic-embed-text:latest", "nomic-embed-text", "mxbai-embed-large", "my-model"}
    ELSE {"text-embedding-3-small", "text-embedding-ada-002",
          "text-embedding-3-large", "my-model"}

WithConfig(b, field, value) ==
    [b EXCEPT !.codebaseIndexConfig = Some([b.codebaseIndexConfig.v EXCEPT ![field] = value])]

ModelEdits(b, embedder) ==
    {WithConfig(b, "codebaseIndexEmbedderModelId", Some(id)) : id \in ModelChoices(embedder)}

OpenAiEdits(b) ==
    {[b EXCEPT !.codeIndexOpenAiKey = k] : k \in {None, Some("sk-2")}}

OllamaEdits(b) ==
    {WithConfig(b, "codebaseIndexEmbedderBaseUrl", u) :
        u \in {None, Some(""), Some("http://ollama-2:11434")}}

CompatEdits(b) ==
    {[b EXCEPT !.codebaseIndexOpenAiCompatibleBaseUrl = u] :
        u \in {None, Some("http://compat-2")}}
    \cup {[b EXCEPT !.codebaseIndexOpenAiCompatibleApiKey = k] :
        k \in {Some(""), Some("ck-2")}}
    \cup {[b EXCEPT !.codebaseIndexOpenAiCompatibleModelDimension = Some(d)] :
        d \in {1536, 3072}}

VectorStoreEdits(b) ==
    {WithConfig(b, "codebaseIndexVectorStoreType", t) :
        t \in {None, Some(""), Some("faiss"), Some("pinecone")}}
    \cup {WithConfig(b, "codebaseIndexVectorStoreUrl", u) :
        u \in {None, Some(""), Some("http://qdrant-2:6333")}}
    \cup {WithConfig(b, "codebaseIndexVectorStoreApiKey", k) :
        k \in {None, Some("qk-2")}}
    \cup {[WithConfig(b, "codebaseIndexVectorStoreType", None)
              EXCEPT !.codebaseIndexVectorStoreType = Some("faiss")],
          [WithConfig(b, "codebaseIndexVectorStoreUrl", None)
              EXCEPT !.codebaseIndexVectorStoreUrl = Some("http://qdrant:6333")],
          [WithConfig(b, "codebaseIndexVectorStoreApiKey", None)
              EXCEPT !.codebaseIndexVectorStoreApiKey = Some("qk-1")]}

OtherEdits(b) ==
    {WithConfig(b, "codebaseIndexSearchMinScore", Some(75)),
     WithConfig(b, "codebaseIndexEmbedderProvider", Some("")),
     WithConfig(b, "codebaseIndexEmbedderProvider", None)}

EnabledConfigs ==
    LET O == BaseConfig("openai")
        L == BaseConfig("ollama")
        C == BaseConfig("openai-compatible")
    IN  {O, L, C}
        \cup ModelEdits(O, "openai") \cup OpenAiEdits(O) \cup VectorStoreEdits(O)
        \cup OtherEdits(O)
        \cup {WithConfig(O, "codebaseIndexEmbedderBaseUrl", Some("http://ollama-2:11434"))}
        \cup ModelEdits(L, "ollama") \cup OllamaEdits(L)
        \cup {[L EXCEPT !.codeIndexOpenAiKey = Some("sk-2")]}
        \cup ModelEdits(C, "openai-compatible") \cup CompatEdits(C)

\* nothing is stored at all
NothingStored ==
    [Stored(None, None, None, None, None) EXCEPT !.codebaseIndexVectorStoreType = None]

StoredConfigs ==
    EnabledConfigs
    \cup {WithConfig(c, "codebaseIndexEnabled", Some(FALSE)) : c \in EnabledConfigs}
    \cup {WithConfig(BaseConfig("openai"), "codebaseIndexEnabled", None),
          [BaseConfig("openai") EXCEPT !.codebaseIndexConfig = None],
          NothingStored}

InitConfig ==
    /\ domains = ShippedDomains
    /\ toolGroups = DisjointToolGroups
    /\ customDomains = <<>>
    /\ GateIdle
    /\ CatalogueIdle
    /\ promptOverride = None
    /\ ToolsIdle
    /\ RetrieverIdle
    /\ persisted \in StoredConfigs
    /\ manager = loadAndSetConfiguration(persisted)
    /\ loadedConfig = persisted
    /\ configCall = NoCall

configRest == <<domains, toolGroups, gateVars, catVars, promptOverride, toolVars,
               retrieverVars>>

\* the settings are saved: the context proxy holds another configuration.
\* One save can reach every configuration, so at most one is taken between
\* two loads.
SaveSettings ==
    /\ persisted = loadedConfig
    /\ persisted' \in StoredConfigs \ {persisted}
    /\ configCall' = NoCall
    /\ UNCHANGED <<manager, loadedConfig, configRest>>

LoadConfiguration ==
    LET result == loadConfiguration(manager, persisted) IN
    /\ manager' = result.fields
    /\ loadedConfig' = persisted
    /\ configCall' = [op |-> "loadConfiguration",
                      sameAsLastLoad |-> (persisted = loadedConfig),
                      previousStored |-> loadedConfig,
                      configSnapshot |-> result.configSnapshot,
                      currentConfig |-> result.currentConfig,
                      requiresRestart |-> result.requiresRestart]
    /\ UNCHANGED <<persisted, configRest>>

GetConfig ==
    /\ configCall' = [op |-> "getConfig", returned |-> getConfig(manager)]
    /\ UNCHANGED <<persisted, manager, loadedConfig, configRest>>

\* clearConfiguration: contextProxy.resetAllState()
ClearConfiguration ==
    /\ persisted # NothingStored
    /\ persisted' = NothingStored
    /\ configCall' = NoCall
    /\ UNCHANGED <<manager, loadedConfig, configRest>>

NextConfig ==
    \/ SaveSettings
    \/ LoadConfiguration
    \/ GetConfig
    \/ ClearConfiguration

SpecConfig == InitConfig /\ [][NextConfig]_vars

Loaded == configCall.op = "loadConfiguration"

NonEmpty(o) == o.def /\ o.v # ""

\* the claim's table, read off the fields the manager holds
ExpectedConfigured ==
    LET storeSet == NonEmpty(manager.vectorStoreType) /\ NonEmpty(manager.vectorStoreUrl)
        compat == manager.openAiCompatibleOptions
    IN  IF manager.embedderProvider = "openai"
        THEN manager.openAiOptions.v.openAiNativeApiKey # "" /\ storeSet
        ELSE IF manager.embedderProvider = "ollama"
        THEN NonEmpty(manager.ollamaOptions.v.ollamaBaseUrl) /\ storeSet
        ELSE /\ manager.embedderProvider = "openai-compatible"
             /\ compat.def /\ compat.v.baseUrl # "" /\ compat.v.apiKey # ""
             /\ storeSet

(* C15: in every reachable state of the manager, isConfigured() -- and the *)
(* isConfigured field of what getConfig and a reload return -- is true     *)
(* exactly when, for openai, the API key, the vector-store type and the    *)
(* vector-store URL are non-empty; for ollama, the base URL and the same   *)
(* two; for openai-compatible, base URL, API key and the same two.  It is  *)
(* computed from the fields held and is not itself a field.                *)
C15_ConfiguredFromFields ==
    /\ isConfigured(manager) = ExpectedConfigured
    /\ "isConfigured" \notin DOMAIN manager
    /\ configCall.op = "getConfig" =>
         configCall.returned.isConfigured = ExpectedConfigured
    /\ Loaded => configCall.currentConfig.isConfigured = ExpectedConfigured

\* a reload took a configured manager to an unconfigured one
C15_Witness ==
    /\ Loaded
    /\ configCall.configSnapshot.configured
    /\ ~configCall.currentConfig.isConfigured
    /\ manager.embedderProvider = "openai-compatible"

(* C16: a loadConfiguration call made while the context proxy holds the    *)
(* configuration it held at the previous load (the constructor's or the    *)
(* previous call's) returns requiresRestart = false, whatever that         *)
(* configuration is.                                                       *)
C16_NothingChangedNoRestart ==
    (Loaded /\ configCall.sameAsLastLoad) => ~configCall.requiresRestart

\* such a call was made on an enabled, configured manager whose model the
\* dimension table does not know
C16_Witness ==
    /\ Loaded
    /\ configCall.sameAsLastLoad
    /\ manager.isEnabled
    /\ isConfigured(manager)
    /\ manager.modelId = Some("my-model")

\* the state before the reload, as the call captured it
Before == configCall.configSnapshot

\* the reload saw the provider go from openai to ollama, and the ollama
\* configuration it loaded is valid
OpenAiToOllama ==
    /\ Loaded
    /\ Before.embedderProvider = "openai"
    /\ manager.embedderProvider = "ollama"
    /\ NonEmpty(manager.ollamaOptions.v.ollamaBaseUrl)
    /\ NonEmpty(manager.vectorStoreType)
    /\ NonEmpty(manager.vectorStoreUrl)

(* C17, as stated: whenever a loadConfiguration call observes the provider *)
(* changed from openai to ollama and the ollama configuration is valid, it *)
(* returns requiresRestart = true and isConfigured = true.  This fails     *)
(* when the feature is disabled before and after the reload.               *)
C17_ProviderChangeRestarts ==
    OpenAiToOllama =>
        configCall.requiresRestart /\ configCall.currentConfig.isConfigured

(* C17, amended: such a call returns isConfigured = true, and it returns   *)
(* requiresRestart = true exactly when the feature is enabled before or    *)
(* after the reload.                                                       *)
C17_ProviderChangeRestartsWhenEnabled ==
    OpenAiToOllama =>
        /\ configCall.currentConfig.isConfigured
        /\ configCall.requiresRestart <=> (Before.enabled \/ manager.isEnabled)

\* the provider changed in a reload that also disabled a ready feature
C17_Witness ==
    /\ OpenAiToOllama
    /\ Before.enabled
    /\ Before.configured
    /\ ~manager.isEnabled
    /\ configCall.requiresRestart

(* C18: a reload that finds the feature disabled or unconfigured before    *)
(* and enabled and configured after returns requiresRestart = true.        *)
C18_BecomingReadyRestarts ==
    (Loaded /\ (~Before.enabled \/ ~Before.configured)
            /\ manager.isEnabled /\ ExpectedConfigured)
        => configCall.requiresRestart

\* the feature was switched on and nothing else was touched
C18_Witness ==
    /\ Loaded
    /\ ~Before.enabled
    /\ Before.configured
    /\ manager.isEnabled
    /\ ExpectedConfigured
    /\ ~settingsChanged(manager, Before)
    /\ configCall.requiresRestart

(* C19: a reload that finds the feature disabled before and still disabled *)
(* after returns requiresRestart = false, even when provider, model,       *)
(* credentials or vector-store settings changed.                           *)
C19_DisabledNoRestart ==
    (Loaded /\ ~Before.enabled /\ ~manager.isEnabled) => ~configCall.requiresRestart

\* the provider changed while the feature stayed disabled
C19_Witness ==
    /\ Loaded
    /\ ~Before.enabled
    /\ ~manager.isEnabled
    /\ Before.embedderProvider # manager.embedderProvider
    /\ Before.configured
    /\ ExpectedConfigured
    /\ ~configCall.requiresRestart

\* the model id in force: the explicit one, else the provider's default
ResolvedModel(embedder, modelId) ==
    IF modelId.def THEN modelId.v ELSE getDefaultModelId(embedder)

\* the reload found the feature ready before and after, the same provider,
\* another model id, and every other setting as it was
OnlyModelChanged ==
    /\ Loaded
    /\ Before.enabled /\ Before.configured
    /\ manager.isEnabled /\ ExpectedConfigured
    /\ Before.embedderProvider = manager.embedderProvider
    /\ Before.modelId # manager.modelId
    /\ [Before EXCEPT !.modelId = manager.modelId] = PreviousConfigSnapshot(manager)

DimensionDiffersOrUnknown ==
    LET old == getModelDimension(Before.embedderProvider,
                   ResolvedModel(Before.embedderProvider, Before.modelId))
        new == getModelDimension(manager.embedderProvider,
                   ResolvedModel(manager.embedderProvider, manager.modelId))
    IN  ~old.def \/ ~new.def \/ old.v # new.v

Now == PreviousConfigSnapshot(manager)

SameProviderAndModel ==
    /\ Before.embedderProvider = Now.embedderProvider
    /\ Before.modelId = Now.modelId

\* the API key or base URL of the provider in use changed
CurrentCredentialsChanged ==
    \/ Now.embedderProvider = "openai" /\ Before.openAiKey # Now.openAiKey
    \/ Now.embedderProvider = "ollama" /\ Before.ollamaBaseUrl # Now.ollamaBaseUrl
    \/ /\ Now.embedderProvider = "openai-compatible"
       /\ \/ Before.openAiCompatibleBaseUrl # Now.openAiCompatibleBaseUrl
          \/ Before.openAiCompatibleApiKey # Now.openAiCompatibleApiKey

\* Before with the credential and endpoint fields of the providers that are
\* not in use taken from Now
WithOtherCredentialsOfNow ==
    IF Now.embedderProvider = "openai"
    THEN [Before EXCEPT !.ollamaBaseUrl = Now.ollamaBaseUrl,
                        !.openAiCompatibleBaseUrl = Now.openAiCompatibleBaseUrl,
                        !.openAiCompatibleApiKey = Now.openAiCompatibleApiKey]
    ELSE IF Now.embedderProvider = "ollama"
    THEN [Before EXCEPT !.openAiKey = Now.openAiKey,
                        !.openAiCompatibleBaseUrl = Now.openAiCompatibleBaseUrl,
                        !.openAiCompatibleApiKey = Now.openAiCompatibleApiKey]
    ELSE [Before EXCEPT !.openAiKey = Now.openAiKey,
                        !.ollamaBaseUrl = Now.ollamaBaseUrl]

\* something changed, and only credentials of providers that are not in use
OnlyOtherCredentialsChanged ==
    Before # Now /\ WithOtherCredentialsOfNow = Now

(* C21: with the feature enabled before or after a reload, configured      *)
(* before or after it, and provider and model unchanged, loadConfiguration *)
(* returns requiresRestart = true when the API key or base URL of the      *)
(* provider in use changed; a change confined to the credential or         *)
(* endpoint fields of a provider that is not in use does not.              *)
C21_CurrentCredentialsRestart ==
    (Loaded /\ (Before.enabled \/ Now.enabled)
            /\ (Before.configured \/ Now.configured)
            /\ SameProviderAndModel)
        => /\ CurrentCredentialsChanged => configCall.requiresRestart
           /\ OnlyOtherCredentialsChanged => ~configCall.requiresRestart

\* the OpenAI key changed while ollama was, and stayed, the provider in use
C21_Witness ==
    /\ Loaded
    /\ Before.enabled /\ Now.enabled /\ Before.configured /\ Now.configured
    /\ Now.embedderProvider = "ollama"
    /\ OnlyOtherCredentialsChanged
    /\ Before.openAiKey # Now.openAiKey
    /\ ~configCall.requiresRestart

ReadyBeforeAndAfter ==
    /\ Loaded
    /\ Before.enabled /\ Before.configured
    /\ Now.enabled /\ Now.configured

VectorStoreChanged ==
    \/ Before.vectorStoreType # Now.vectorStoreType
    \/ Before.vectorStoreUrl # Now.vectorStoreUrl
    \/ Before.vectorStoreApiKey # Now.vectorStoreApiKey

\* the dimension looked up for the resolved model changed, or cannot be told
ResolvedDimensionChanged ==
    /\ ResolvedModel(Before.embedderProvider, Before.modelId) #
           ResolvedModel(Now.embedderProvider, Now.modelId)
    /\ DimensionDiffersOrUnknown

\* none of the four things the claim lists changed
ListedSettingsUnchanged ==
    /\ Before.embedderProvider = Now.embedderProvider
    /\ ~ResolvedDimensionChanged
    /\ ~CurrentCredentialsChanged
    /\ ~VectorStoreChanged

(* C22, as stated: with the feature enabled and configured before and      *)
(* after a reload, a change of the vector-store type, URL or API key       *)
(* yields requiresRestart = true, and when none of provider, resolved      *)
(* dimension, current-provider credentials and vector-store settings       *)
(* changed the result is false.  The second half fails when the model      *)
(* dimension configured for the openai-compatible provider changed.        *)
C22_VectorStoreRestart ==
    ReadyBeforeAndAfter =>
        /\ VectorStoreChanged => configCall.requiresRestart
        /\ ListedSettingsUnchanged => ~configCall.requiresRestart

(* C22, amended: ... and when none of provider, resolved dimension,        *)
(* current-provider credentials, vector-store settings and, for the        *)
(* openai-compatible provider, its configured model dimension changed,     *)
(* the result is false.                                                    *)
C22_VectorStoreRestartOrDimension ==
    ReadyBeforeAndAfter =>
        /\ VectorStoreChanged => configCall.requiresRestart
        /\ (/\ ListedSettingsUnchanged
            /\ Now.embedderProvider = "openai-compatible" =>
                  Before.openAiCompatibleModelDimension =
                      Now.openAiCompatibleModelDimension)
             => ~configCall.requiresRestart

\* only the vector-store API key changed, and the reload asked for a restart
C22_Witness ==
    /\ ReadyBeforeAndAfter
    /\ Before.vectorStoreApiKey # Now.vectorStoreApiKey
    /\ [Before EXCEPT !.vectorStoreApiKey = Now.vectorStoreApiKey] = Now
    /\ configCall.requiresRestart

\* the stored configuration of the previous load and the present one differ
\* in the search-min-score and in nothing else
OnlyMinScoreStoredChanged ==
    /\ Loaded
    /\ configCall.previousStored # loadedConfig
    /\ configCall.previousStored.codebaseIndexConfig.def
    /\ loadedConfig.codebaseIndexConfig.def
    /\ [configCall.previousStored EXCEPT !.codebaseIndexConfig.v.codebaseIndexSearchMinScore =
            loadedConfig.codebaseIndexConfig.v.codebaseIndexSearchMinScore] = loadedConfig

(* C23: a reload in which the only change to the persisted configuration   *)
(* is the search-min-score value returns requiresRestart = false, and      *)
(* after every reload the normalized searchMinScore is the fixed constant  *)
(* whatever the persisted value.                                           *)
C23_MinScoreIsCosmetic ==
    /\ OnlyMinScoreStoredChanged => ~configCall.requiresRestart
    /\ Loaded => /\ manager.searchMinScore = Some(SEARCH_MIN_SCORE)
                 /\ configCall.currentConfig.searchMinScore = Some(SEARCH_MIN_SCORE)

\* the stored score went from 0.4 to 0.75 on an enabled, configured manager
C23_Witness ==
    /\ OnlyMinScoreStoredChanged
    /\ loadedConfig.codebaseIndexConfig.v.codebaseIndexSearchMinScore = Some(75)
    /\ Now.enabled /\ Now.configured
    /\ manager.searchMinScore = Some(SEARCH_MIN_SCORE)

-----------------------------------------------------------------------------
(* FaissClient (domain-vector-retriever.ts:92-172)                           *)

\* the 768 of `dim: number = 768` and of the embedding check
Dim768 == 768

\* A vector of `len` numbers: the coordinates of `head`, then zeros.  The
\* embeddings of the program have 768 coordinates; only the leading ones
\* differ in the vectors used here.
Vec(len, head) == [len |-> len, head |-> head]

\* v[i] of the source (1-based here): undefined beyond the length
At(v, i) ==
    IF i > v.len THEN None
    ELSE Some(IF i <= Len(v.head) THEN v.head[i] ELSE 0)

\* a JavaScript number: a value in hundredths, or NaN
Num(n) == [nan |-> FALSE, v |-> n]

NaN == [nan |-> TRUE, v |-> 0]

Max2(a, b) == IF a >= b THEN a ELSE b

Min2(a, b) == IF a <= b THEN a ELSE b

\* Math.sqrt, in hundredths rounded down (exact order on the integer sums
\* that occur: consecutive integers below 2500 have roots 0.01 apart or more)
Sqrt(n) == CHOOSE r \in 0..(100 * n) : r * r <= 10000 * n /\ (r + 1) * (r + 1) > 10000 * n

RECURSIVE SumSquares(_, _, _)
\* let sum = 0; for (i < a.length) { d = a[i] - b[i]; sum += d * d }, for
\* the coordinates up to `upTo` (the later ones are zero in both vectors)
SumSquares(a, b, upTo) ==
    IF upTo = 0 THEN 0
    ELSE LET d == At(a, upTo).v - At(b, upTo).v
         IN  SumSquares(a, b, upTo - 1) + d * d

\* l2(a, b): the loop runs over a's length; a coordinate b lacks is
\* undefined and makes the sum NaN; coordinates b has beyond a's length are
\* never read.  b is an Option: reading a coordinate of undefined throws.
l2(a, b) ==
    IF a.len = 0 THEN Return(Num(0))
    ELSE IF ~b.def THEN Throw("TypeError")
    ELSE IF a.len > b.v.len THEN Return(NaN)
    ELSE Return(Num(Sqrt(SumSquares(a, b.v,
                    Min2(a.len, Max2(Len(a.head), Len(b.v.head)))))))

\* -x
Negated(x) == IF x.nan THEN NaN ELSE Num(0 - x.v)

\* new FaissClient(domain, bundlePath); `load` is the position of the one
\* load() call the retriever makes on a client
NewFaissClient(domain, bundlePath) ==
    [domain |-> domain, bundlePath |-> bundlePath,
     vectors |-> <<>>, texts |-> <<>>, dim |-> Dim768, loaded |-> FALSE,
     load |-> "none"]

getFaissBundlePathForDomain(domain) == "/home/shtlp0015/faiss-test/vectors.json"

\* what fs.readFile and JSON.parse yield for the bundle
FileMissing == [read |-> "rejected", parsed |-> None]

NotJson == [read |-> "text", parsed |-> None]

Parsed(isArray, items) ==
    [read |-> "text", parsed |-> Some([array |-> isArray, items |-> items])]

\* an element of the parsed array: an object with an embedding (None: not
\* an array) and a text (None: not a string), null, or a number
Item(embedding, text) == [kind |-> "object", embedding |-> embedding, text |-> text]

NullItem == [kind |-> "null", embedding |-> None, text |-> None]

NumberItem == [kind |-> "number", embedding |-> None, text |-> None]

\* the first element passes the checks of lines 118-124
FirstItemValid(items) ==
    /\ items[1].kind = "object"
    /\ items[1].embedding.def
    /\ items[1].text.def

\* the try block of load() completes: the file was read and parsed, the
\* format check passed and items.map read a property of no null element
LoadSucceeds(outcome) ==
    /\ outcome.read = "text"
    /\ outcome.parsed.def
    /\ outcome.parsed.v.array
    /\ Len(outcome.parsed.v.items) > 0
    /\ FirstItemValid(outcome.parsed.v.items)
    /\ \A i \in 1..Len(outcome.parsed.v.items) : outcome.parsed.v.items[i].kind # "null"

\* load() after readFile settled, with `loaded = true` moved into a finally
load_alwaysLoaded(this, outcome) ==
    IF LoadSucceeds(outcome)
    THEN LET items == outcome.parsed.v.items
         IN  [this EXCEPT !.vectors = [i \in 1..Len(items) |-> items[i].embedding],
                          !.texts = [i \in 1..Len(items) |-> items[i].text],
                          !.dim = items[1].embedding.v.len,
                          !.loaded = TRUE,
                          !.load = "resolved"]
    ELSE [this EXCEPT !.loaded = TRUE, !.load = "rejected"]

\* load() after readFile settled: the client as load leaves it; `load`
\* tells whether the promise resolved or rejected
load(this, outcome) ==
    IF LoadSucceeds(outcome)
    THEN LET items == outcome.parsed.v.items
         IN  [this EXCEPT !.vectors = [i \in 1..Len(items) |-> items[i].embedding],
                          !.texts = [i \in 1..Len(items) |-> items[i].text],
                          !.dim = items[1].embedding.v.len,
                          !.loaded = TRUE,
                          !.load = "resolved"]
    ELSE [this EXCEPT !.load = "rejected"]

\* vectors.map((vec, idx) => ({idx, score: -l2(queryEmbedding, vec)}))
Scores(this, queryEmbedding) ==
    [idx \in 1..Len(this.vectors) |->
        [idx |-> idx, score |-> Negated(l2(queryEmbedding, this.vectors[idx]).value)]]

\* the comparator (a, b) => b.score - a.score as sort reads it: NaN counts
\* as 0
Compare(a, b) ==
    IF a.score.nan \/ b.score.nan THEN 0 ELSE b.score.v - a.score.v

\* the comparator orders the scores consistently unless a NaN stands
\* between two different numbers
Consistent(scores) ==
    \/ \A i \in DOMAIN scores : ~scores[i].score.nan
    \/ \A i, j \in DOMAIN scores :
          (~scores[i].score.nan /\ ~scores[j].score.nan)
              => scores[i].score.v = scores[j].score.v

RECURSIVE InsertSorted(_, _)
\* e goes behind every element the comparator does not put after it
InsertSorted(sorted, e) ==
    IF sorted = <<>> THEN <<e>>
    ELSE IF Compare(sorted[1], e) <= 0
         THEN <<sorted[1]>> \o InsertSorted(Tail(sorted), e)
         ELSE <<e>> \o sorted

RECURSIVE StableSort(_)
StableSort(scores) ==
    IF scores = <<>> THEN <<>>
    ELSE InsertSorted(StableSort(SubSeq(scores, 1, Len(scores) - 1)),
                      scores[Len(scores)])

Orders(scores) ==
    {[i \in DOMAIN scores |-> scores[p[i]]] :
        p \in {q \in [DOMAIN scores -> DOMAIN scores] :
                  \A i, j \in DOMAIN scores : i # j => q[i] # q[j]}}

\* scores.sort(...): a stable sort under a consistent comparator; with an
\* inconsistent one the order is implementation-defined
Sorted(scores) ==
    IF Consistent(scores) THEN {StableSort(scores)} ELSE Orders(scores)

\* slice(0, topN): a negative end counts from the back
Slice(s, topN) ==
    LET last == IF topN >= 0 THEN Min2(topN, Len(s)) ELSE Max2(Len(s) + topN, 0)
    IN  SubSeq(s, 1, last)

\* ({idx, score}) => ({text: this.texts[idx], score}); idx is kept to tell
\* which entry a result came from
Output(this, ranked) ==
    [i \in DOMAIN ranked |->
        [text |-> IF ranked[i].idx <= Len(this.texts)
                  THEN this.texts[ranked[i].idx] ELSE None,
         score |-> ranked[i].score,
         idx |-> ranked[i].idx]]

\* search(queryEmbedding, topN = 5): the outcomes the call can have
search(this, queryEmbedding, topN) ==
    IF ~this.loaded THEN {Throw("FaissClient: Not loaded")}
    ELSE IF \E i \in 1..Len(this.vectors) : l2(queryEmbedding, this.vectors[i]).kind = "throw"
    THEN {Throw("TypeError")}
    ELSE {Return(Output(this, Slice(ranked, Coalesce(topN, Some(5)).v))) :
              ranked \in Sorted(Scores(this, queryEmbedding))}

(* One FaissClient, loaded once as the retriever loads it, and searched at   *)
(* any time                                                                  *)

SupportedDomains == {"healthcare", "manufacturing"}

\* three entries of 768 coordinates; the first two are equally far from the
\* zero vector
Uniform768 ==
    <<Item(Some(Vec(Dim768, <<1, 0>>)), Some("alpha")),
      Item(Some(Vec(Dim768, <<0, 1>>)), Some("beta")),
      Item(Some(Vec(Dim768, <<>>)), Some("gamma"))>>

\* two entries of two coordinates
Uniform2 ==
    <<Item(Some(Vec(2, <<3, 4>>)), Some("alpha")),
      Item(Some(Vec(2, <<0, 0>>)), Some("beta"))>>

\* the second entry is shorter than the first
Ragged ==
    <<Item(Some(Vec(Dim768, <<1>>)), Some("alpha")),
      Item(Some(Vec(1, <<2>>)), Some("beta")),
      Item(Some(Vec(Dim768, <<>>)), Some("gamma"))>>

\* the second entry has no embedding, the third no text
Holes ==
    <<Item(Some(Vec(Dim768, <<1>>)), Some("alpha")),
      Item(None, Some("beta")),
      Item(Some(Vec(Dim768, <<>>)), None)>>

\* the second entry has no text
NoText ==
    <<Item(Some(Vec(Dim768, <<1>>)), Some("alpha")),
      Item(Some(Vec(Dim768, <<>>)), None)>>

ReadOutcomes ==
    {FileMissing, NotJson, Parsed(FALSE, <<>>), Parsed(TRUE, <<>>),
     Parsed(TRUE, <<Item(Some(Vec(2, <<>>)), None)>>),
     Parsed(TRUE, <<Item(None, Some("alpha"))>>),
     Parsed(TRUE, <<NullItem>>), Parsed(TRUE, <<NumberItem>>),
     Parsed(TRUE, Uniform2 \o <<NullItem>>),
     Parsed(TRUE, Uniform2 \o <<NumberItem>>),
     Parsed(TRUE, Uniform768), Parsed(TRUE, Uniform2), Parsed(TRUE, Ragged),
     Parsed(TRUE, Holes), Parsed(TRUE, NoText)}

QueryEmbeddings ==
    {Vec(Dim768, <<>>), Vec(Dim768, <<1, 0>>), Vec(2, <<0, 0>>), Vec(2, <<3, 3>>),
     Vec(3, <<1, 1, 1>>)}

MaxTopN == 4

\* topN as passed: omitted, or a number
TopNs == {None} \cup {Some(n) : n \in -1..MaxTopN}

InitFaiss ==
    /\ domains = ShippedDomains
    /\ toolGroups = DisjointToolGroups
    /\ customDomains = <<>>
    /\ GateIdle
    /\ CatalogueIdle
    /\ promptOverride = None
    /\ ToolsIdle
    /\ ConfigIdle
    /\ faissClient = 0
    /\ loadedDomain = None
    /\ \E d \in SupportedDomains :
          clients = <<NewFaissClient(d, getFaissBundlePathForDomain(d))>>
    /\ retrievals = <<>>
    /\ lastFailure = 0
    /\ faissCall = NoCall

faissRest == <<domains, toolGroups, gateVars, catVars, promptOverride, toolVars,
              configVars, faissClient, loadedDomain, retrievals, lastFailure>>

\* the nine texts of the stub client (vector-store/faiss-client.ts:24-34),
\* without the domain name each of them ends in
StubTexts ==
    <<Some("Manufacturing for"), Some("Manufacturing site for"),
      Some("Manufacturing site useful for"), Some("Engineering for"),
      Some("Engineering site for"), Some("Engineering site useful for"),
      Some("Healthcare for"), Some("Healthcare site for"),
      Some("Healthcare site useful for")>>

\* what Math.random() yields for the leading coordinate of the ten vectors
\* (on a grid of two values; the other coordinates are taken as equal)
RandomDraws ==
    {[i \in 1..10 |-> 0], [i \in 1..10 |-> i % 2], [i \in 1..10 |-> (i + 1) % 2]}

\* load() of the stub client: ten vectors of this.dim random numbers, nine
\* texts, loaded = true; nothing is awaited
stubLoad(this, draws) ==
    [this EXCEPT !.vectors = [i \in 1..10 |-> Some(Vec(this.dim, <<draws[i]>>))],
                 !.texts = StubTexts,
                 !.loaded = TRUE,
                 !.load = "resolved"]

\* load() of the stub client (vector-store/faiss-client.ts:21-36)
StubLoad ==
    /\ clients[1].load = "none"
    /\ \E draws \in RandomDraws :
          clients' = [clients EXCEPT ![1] = stubLoad(clients[1], draws)]
    /\ faissCall' = [op |-> "stubLoaded", before |-> clients[1]]
    /\ UNCHANGED faissRest

\* load() up to `await fs.readFile(...)`
FaissLoad ==
    /\ clients[1].load = "none"
    /\ clients' = [clients EXCEPT ![1].load = "reading"]
    /\ faissCall' = [op |-> "load", before |-> clients[1]]
    /\ UNCHANGED faissRest

\* readFile settles and load() runs to its end
FaissLoadSettles ==
    /\ clients[1].load = "reading"
    /\ \E outcome \in ReadOutcomes :
          /\ clients' = [clients EXCEPT ![1] = load(clients[1], outcome)]
          /\ faissCall' = [op |-> "loaded", before |-> clients[1], outcome |-> outcome]
    /\ UNCHANGED faissRest

\* search(queryEmbedding, topN), at any point of the client's life
FaissSearch ==
    /\ \E queryEmbedding \in QueryEmbeddings, topN \in TopNs :
          \E result \in search(clients[1], queryEmbedding, topN) :
              faissCall' = [op |-> "search", before |-> clients[1],
                            queryEmbedding |-> queryEmbedding, topN |-> topN,
                            result |-> result]
    /\ UNCHANGED <<clients, faissRest>>

NextFaiss == FaissLoad \/ FaissLoadSettles \/ StubLoad \/ FaissSearch

SpecFaiss == InitFaiss /\ [][NextFaiss]_vars

Searched == faissCall.op = "search"

LoadSettled == faissCall.op = "loaded"

NotLoadedError == Throw("FaissClient: Not loaded")

(* C27: a FaissClient index is all-or-nothing.  search fails with the      *)
(* not-loaded error at every point before load has completed successfully; *)
(* a failed load leaves the loaded flag false and the stored vectors and   *)
(* texts as they were; a successful load sets vectors, texts,              *)
(* dimensionality and the loaded flag together.                            *)
C27_AllOrNothing ==
    /\ (Searched /\ faissCall.before.load # "resolved")
           => faissCall.result = NotLoadedError
    /\ (LoadSettled /\ clients[1].load = "rejected")
           => /\ ~clients[1].loaded
              /\ clients[1].vectors = faissCall.before.vectors
              /\ clients[1].texts = faissCall.before.texts
    /\ (LoadSettled /\ clients[1].load = "resolved")
           => LET items == faissCall.outcome.parsed.v.items
              IN  /\ clients[1].loaded
                  /\ clients[1].vectors = [i \in 1..Len(items) |-> items[i].embedding]
                  /\ clients[1].texts = [i \in 1..Len(items) |-> items[i].text]
                  /\ clients[1].dim = items[1].embedding.v.len
    /\ clients[1].loaded <=> clients[1].load = "resolved"
    /\ ~clients[1].loaded =>
           /\ clients[1].vectors = <<>>
           /\ clients[1].texts = <<>>
           /\ clients[1].dim = Dim768

\* a search on a client whose load failed on a bundle that has entries
C27_Witness ==
    /\ Searched
    /\ faissCall.before.load = "rejected"
    /\ faissCall.result = NotLoadedError
    /\ faissCall.before.vectors = <<>>

\* the Euclidean distance of two vectors of the same length, in hundredths
Distance(a, b) == Sqrt(SumSquares(a, b, Max2(Len(a.head), Len(b.head))))

Returned == Searched /\ faissCall.result.kind = "return"

Results == faissCall.result.value

ReturnedEntries == {Results[i].idx : i \in DOMAIN Results}

\* the score search computed for entry k of the index it searched
ScoreOf(k) == Scores(faissCall.before, faissCall.queryEmbedding)[k].score

\* x >= y on JavaScript numbers: false when either is NaN
AtLeast(x, y) == ~x.nan /\ ~y.nan /\ x.v >= y.v

(* C29: FaissClient.search returns results in non-increasing score order   *)
(* where the score of an entry is the negated Euclidean distance between   *)
(* the query and that stored vector; entries of equal score appear in      *)
(* insertion order; every returned entry scores at least as high as every  *)
(* entry not returned.                                                     *)
C29_RankedByDistance ==
    Returned =>
        /\ \A i \in DOMAIN Results :
              LET stored == faissCall.before.vectors[Results[i].idx].v
              IN  /\ stored.len = faissCall.queryEmbedding.len
                  /\ Results[i].score =
                         Num(0 - Distance(faissCall.queryEmbedding, stored))
        /\ \A i, j \in DOMAIN Results :
              i < j => /\ AtLeast(Results[i].score, Results[j].score)
                       /\ Results[i].score = Results[j].score
                              => Results[i].idx < Results[j].idx
        /\ \A i \in DOMAIN Results :
              \A k \in 1..Len(faissCall.before.vectors) :
                  k \notin ReturnedEntries => AtLeast(Results[i].score, ScoreOf(k))

(* C30: for every loaded index holding n entries and every topN >= 0,      *)
(* search returns exactly min(topN, n) results, without padding and        *)
(* without failing when n < topN.                                          *)
C30_ExactlyMinResults ==
    (/\ Searched
     /\ faissCall.before.loaded
     /\ Coalesce(faissCall.topN, Some(5)).v >= 0)
        => /\ faissCall.result.kind = "return"
           /\ Len(Results) = Min2(Coalesce(faissCall.topN, Some(5)).v,
                                  Len(faissCall.before.vectors))
           /\ \A i, j \in DOMAIN Results : i # j => Results[i].idx # Results[j].idx
           /\ ReturnedEntries \subseteq 1..Len(faissCall.before.vectors)

-----------------------------------------------------------------------------
(* DomainVectorRetriever (domain-vector-retriever.ts:60-90): calls of       *)
(* getTopChunksForQuery on one retriever, interleaved at their awaits        *)

MaxRetrievals == 3

\* how many calls may be between their first await and their end
MaxInFlight == 2

\* what the bundle file holds when a load reads it
RetrieverReadOutcomes == {FileMissing, Parsed(TRUE, Uniform768), Parsed(TRUE, Uniform2)}

\* embeddingResp.embeddings[0]: undefined, or a vector
EmbedderAnswers == {None, Some(Vec(Dim768, <<>>)), Some(Vec(2, <<0, 0>>))}

\* topN is left to its default in these calls; SpecFaiss varies it
RetrievalTopNs == {None}

LoadFailure == Throw("Failed to load vectors")

\* a getTopChunksForQuery call: its arguments, its position, the client
\* whose load it awaits, and what it did (fresh: it constructed a client;
\* follows: the client a failed load left when the call started; searched:
\* the client it searched, with the embedding and the index's dim then)
Retrieval(domain, topN, position, client, follows) ==
    [domain |-> domain, topN |-> topN, pc |-> position, client |-> client,
     fresh |-> client # 0, follows |-> follows, embedding |-> None,
     searched |-> 0, searchedDim |-> 0, result |-> Pending]

\* a finished call is remembered until the next one finishes
Forgotten == [Retrieval("", None, "forgotten", 0, 0) EXCEPT !.fresh = FALSE]

Forget(rs, keep) ==
    [i \in DOMAIN rs |-> IF rs[i].pc = "done" /\ i # keep THEN Forgotten ELSE rs[i]]

InFlight(rs) == {i \in DOMAIN rs : rs[i].pc \notin {"done", "forgotten"}}

\* a client nothing refers to any more is garbage
Collected == [NewFaissClient("", "") EXCEPT !.load = "collected"]

Referenced(c, rs, slot, failure) ==
    \/ c = slot
    \/ c = failure
    \/ \E i \in DOMAIN rs :
          \/ rs[i].pc = "loading" /\ rs[i].client = c
          \/ rs[i].follows = c
          \/ rs[i].searched = c

Collect(cs, rs, slot, failure) ==
    [c \in DOMAIN cs |-> IF Referenced(c, rs, slot, failure) THEN cs[c] ELSE Collected]

InitRetriever ==
    /\ domains = ShippedDomains
    /\ toolGroups = DisjointToolGroups
    /\ customDomains = <<>>
    /\ GateIdle
    /\ CatalogueIdle
    /\ promptOverride = None
    /\ ToolsIdle
    /\ ConfigIdle
    /\ RetrieverIdle

retrieverRest == <<domains, toolGroups, gateVars, catVars, promptOverride, toolVars,
                  configVars, faissCall>>

\* ensureDomainLoaded returns at once: the recorded domain is the requested
\* one and the slot holds a client
AlreadyLoaded(domain) == loadedDomain = Some(domain) /\ faissClient # 0

\* getTopChunksForQuery(query, domain, topN) up to its first await:
\* ensureDomainLoaded returns at once, or constructs a client, puts it in
\* the slot and starts its load
GetTopChunksForQuery ==
    /\ Len(retrievals) < MaxRetrievals
    /\ Cardinality(InFlight(retrievals)) < MaxInFlight
    /\ lastFailure' = 0
    /\ \E domain \in SupportedDomains, topN \in RetrievalTopNs :
          IF AlreadyLoaded(domain)
          THEN /\ retrievals' = Append(retrievals,
                      Retrieval(domain, topN, "ensured", 0, lastFailure))
               /\ faissClient' = faissClient
               /\ clients' = Collect(clients, retrievals', faissClient', 0)
          ELSE /\ faissClient' = Len(clients) + 1
               /\ retrievals' = Append(retrievals,
                      Retrieval(domain, topN, "loading", Len(clients) + 1, lastFailure))
               /\ clients' = Collect(Append(clients,
                      [NewFaissClient(domain, getFaissBundlePathForDomain(domain))
                          EXCEPT !.load = "reading"]), retrievals', faissClient', 0)
    /\ UNCHANGED <<loadedDomain, retrieverRest>>

\* readFile settles for a client and its load() runs to the end
ReadSettles ==
    /\ \E c \in DOMAIN clients :
          /\ clients[c].load = "reading"
          /\ \E outcome \in RetrieverReadOutcomes :
                clients' = [clients EXCEPT ![c] = load(clients[c], outcome)]
    /\ UNCHANGED <<faissClient, loadedDomain, retrievals, lastFailure, retrieverRest>>

\* ensureDomainLoaded resumes after `await this.faissClient.load()`:
\* this.loadedDomain = domain
LoadResolved ==
    /\ \E i \in DOMAIN retrievals :
          /\ retrievals[i].pc = "loading"
          /\ clients[retrievals[i].client].load = "resolved"
          /\ loadedDomain' = Some(retrievals[i].domain)
          /\ retrievals' = [retrievals EXCEPT ![i].pc = "ensured"]
    /\ clients' = Collect(clients, retrievals', faissClient, lastFailure)
    /\ UNCHANGED <<faissClient, lastFailure, retrieverRest>>

\* the load rejected: the error leaves ensureDomainLoaded and
\* getTopChunksForQuery, nothing is assigned
LoadRejected ==
    /\ \E i \in DOMAIN retrievals :
          /\ retrievals[i].pc = "loading"
          /\ clients[retrievals[i].client].load = "rejected"
          /\ retrievals' = [Forget(retrievals, i) EXCEPT ![i].pc = "done",
                                                         ![i].result = LoadFailure]
          /\ lastFailure' = retrievals[i].client
          /\ clients' = Collect(clients, retrievals', faissClient, lastFailure')
    /\ UNCHANGED <<faissClient, loadedDomain, retrieverRest>>

\* after `await this.ensureDomainLoaded(domain)`: the slot is checked and
\* the embedding requested
CreateEmbeddings ==
    /\ \E i \in DOMAIN retrievals :
          /\ retrievals[i].pc = "ensured"
          /\ retrievals' =
                IF faissClient = 0
                THEN [Forget(retrievals, i) EXCEPT
                         ![i].pc = "done",
                         ![i].result = Throw("Faiss client not loaded")]
                ELSE [retrievals EXCEPT ![i].pc = "embedding"]
    /\ clients' = Collect(clients, retrievals', faissClient, lastFailure)
    /\ UNCHANGED <<faissClient, loadedDomain, lastFailure, retrieverRest>>

\* the embedder answers: the length check against 768, then the search of
\* whatever client the slot holds now
EmbeddingSettles ==
    /\ \E i \in DOMAIN retrievals :
          /\ retrievals[i].pc = "embedding"
          /\ \E embedding \in EmbedderAnswers :
                IF ~embedding.def \/ embedding.v.len # Dim768
                THEN retrievals' =
                        [Forget(retrievals, i) EXCEPT
                            ![i].pc = "done",
                            ![i].embedding = embedding,
                            ![i].result = Throw("Ollama did not return a 768-dim embedding")]
                ELSE \E result \in search(clients[faissClient], embedding.v,
                                          retrievals[i].topN) :
                        retrievals' =
                            [Forget(retrievals, i) EXCEPT
                                ![i].pc = "done",
                                ![i].embedding = embedding,
                                ![i].searched = faissClient,
                                ![i].searchedDim = clients[faissClient].dim,
                                ![i].result = result]
    /\ clients' = Collect(clients, retrievals', faissClient, lastFailure)
    /\ UNCHANGED <<faissClient, loadedDomain, lastFailure, retrieverRest>>

NextRetriever ==
    \/ GetTopChunksForQuery
    \/ ReadSettles
    \/ LoadResolved
    \/ LoadRejected
    \/ CreateEmbeddings
    \/ EmbeddingSettles

SpecRetriever == InitRetriever /\ [][NextRetriever]_vars

\* call i ends in this step because the load it awaited failed
LoadFailsFor(i) ==
    /\ i \in DOMAIN retrievals
    /\ retrievals[i].pc = "loading"
    /\ retrievals'[i].pc = "done"
    /\ retrievals'[i].result = LoadFailure

(* C24: after a load of ensureDomainLoaded fails, whatever was cached      *)
(* before (nothing, or another domain's loaded index), the retriever       *)
(* caches no index at all: the client slot is empty and no domain is       *)
(* recorded as loaded.                                                     *)
C24_FailedLoadEmptiesCache ==
    [][\A i \in 1..MaxRetrievals :
          LoadFailsFor(i) => faissClient' = 0 /\ loadedDomain' = None]_vars

\* the last call that finished
Finished(i) ==
    /\ i \in DOMAIN retrievals
    /\ retrievals[i].pc = "done"

(* C25: after a search call failed because the bundle load failed, the     *)
(* next getTopChunksForQuery call on the same retriever, for any domain    *)
(* (the one loaded before the failure included), performs a fresh load     *)
(* before searching and never searches the index the failed load left      *)
(* behind.                                                                 *)
C25_FreshLoadAfterFailure ==
    \A i \in DOMAIN retrievals :
        retrievals[i].follows # 0 =>
            /\ retrievals[i].pc \in {"ensured", "embedding", "done"}
                   => retrievals[i].fresh
            /\ retrievals[i].searched # retrievals[i].follows

NoLoadInFlight ==
    /\ \A i \in DOMAIN retrievals : retrievals[i].pc # "loading"
    /\ \A c \in DOMAIN clients : clients[c].load \in {"resolved", "collected"}

(* C26: loads on one retriever are serialized.  For any interleaving of    *)
(* overlapping ensureDomainLoaded calls for different domains, once all of *)
(* them have completed the recorded loaded domain and the cached index     *)
(* refer to the same domain: a load that completes late never overwrites   *)
(* the state a newer load set.  (Stated for runs in which every load       *)
(* succeeded.)                                                             *)
C26_LoadsSerialized ==
    (NoLoadInFlight /\ faissClient # 0)
        => loadedDomain = Some(clients[faissClient].domain)

(* C28: getTopChunksForQuery fails with a dimension-mismatch error, before *)
(* the index is searched, whenever the length of the embedding returned    *)
(* for the query differs from the dimensionality of the loaded index, and  *)
(* searches the index only when the two are equal.                         *)
C28_DimensionChecked ==
    \A i \in DOMAIN retrievals :
        (Finished(i) /\ retrievals[i].embedding.def /\ retrievals[i].searched # 0)
            => retrievals[i].embedding.v.len = retrievals[i].searchedDim

\* a call starts in this step
CallStarts == Len(retrievals') = Len(retrievals) + 1

\* the slot holds an index of the domain and the index reports loaded
CachedAndLoaded(domain) ==
    /\ faissClient # 0
    /\ clients[faissClient].domain = domain
    /\ clients[faissClient].loaded

(* C31: ensureDomainLoaded(d) skips loading only when the cached index     *)
(* belongs to domain d and that index reports loaded; in every other state *)
(* (no index, an index of another domain, a cached index that is not       *)
(* loaded) it constructs and loads a fresh index for d and replaces the    *)
(* slot.                                                                   *)
C31_SkipsOnlyLoadedIndex ==
    [][CallStarts =>
          LET started == retrievals'[Len(retrievals')]
          IN  ~CachedAndLoaded(started.domain)
                  => /\ started.fresh
                     /\ faissClient' = Len(clients')
                     /\ clients'[faissClient'].domain = started.domain]_vars

(* C37: under any interleaving of overlapping getTopChunksForQuery calls   *)
(* on one retriever, every call that returns results returns them from an  *)
(* index that was constructed for the domain the call requested and whose  *)
(* load had completed before it was searched.                              *)
C37_ResultsFromRequestedDomain ==
    \A i \in DOMAIN retrievals :
        (Finished(i) /\ retrievals[i].result.kind = "return")
            => /\ retrievals[i].searched # 0
               /\ clients[retrievals[i].searched].domain = retrievals[i].domain
               /\ clients[retrievals[i].searched].load = "resolved"

\* the client of SpecFaiss, after a load that succeeded
LoadedIndex == clients[1].loaded

(* C40: after every successful load of a FaissClient (file-backed or       *)
(* stub) the index holds exactly one text per stored vector and every      *)
(* stored vector has the index's dimensionality, so every search result    *)
(* carries a defined text that belongs to the vector whose score it        *)
(* reports.                                                                *)
C40_ParallelArrays ==
    /\ LoadedIndex =>
          /\ Len(clients[1].texts) = Len(clients[1].vectors)
          /\ \A k \in 1..Len(clients[1].vectors) :
                /\ clients[1].vectors[k].def
                /\ clients[1].vectors[k].v.len = clients[1].dim
          /\ \A k \in 1..Len(clients[1].texts) : clients[1].texts[k].def
    /\ Returned =>
          \A i \in DOMAIN Results :
              /\ Results[i].text.def
              /\ Results[i].idx <= Len(faissCall.before.texts)
              /\ Results[i].text = faissCall.before.texts[Results[i].idx]

-----------------------------------------------------------------------------
(* Further properties of the configuration manager                          *)

\* the snapshot that corresponds to a configuration as getConfig and
\* loadConfiguration report it: the same values under the snapshot's field
\* names, an absent key or URL shown as the empty string
SnapshotOfConfig(config) ==
    [enabled |-> config.isEnabled,
     configured |-> config.isConfigured,
     embedderProvider |-> config.embedderProvider,
     modelId |-> config.modelId,
     openAiKey |-> Coalesce(OpenAiKey(config), Some("")).v,
     ollamaBaseUrl |-> Coalesce(OllamaBaseUrl(config), Some("")).v,
     openAiCompatibleBaseUrl |-> Coalesce(CompatField(config, "baseUrl"), Some("")).v,
     openAiCompatibleApiKey |-> Coalesce(CompatField(config, "apiKey"), Some("")).v,
     openAiCompatibleModelDimension |->
        IF config.openAiCompatibleOptions.def
        THEN config.openAiCompatibleOptions.v.modelDimension ELSE None,
     vectorStoreType |-> config.vectorStoreType.v,
     vectorStoreUrl |-> config.vectorStoreUrl.v,
     vectorStoreApiKey |-> config.vectorStoreApiKey.v]

(* C32: for any sequence of loadConfiguration calls, the configSnapshot    *)
(* returned by a call equals, field by field, the normalized state held    *)
(* just before that call (the currentConfig the previous call returned, or *)
(* the state the constructor set), and capturing it changes no field of    *)
(* the manager: the fields afterwards are those the reload alone gives.    *)
C32_SnapshotIsPriorState ==
    [][configCall'.op = "loadConfiguration" =>
          /\ configCall'.configSnapshot = SnapshotOfConfig(getConfig(manager))
          /\ configCall.op = "loadConfiguration"
                 => configCall'.configSnapshot = SnapshotOfConfig(configCall.currentConfig)
          /\ manager' = loadedFields(persisted)]_vars

\* a reload that changed the state: the snapshot is not the state now held
C32_Witness ==
    /\ Loaded
    /\ configCall.previousStored # loadedConfig
    /\ configCall.configSnapshot # SnapshotOfConfig(configCall.currentConfig)
    /\ configCall.configSnapshot.embedderProvider # manager.embedderProvider

KnownVectorStores == {"qdrant", "faiss", "chroma"}

\* the vector-store type the configuration last loaded supplies (None when
\* the configuration or the setting is absent)
SuppliedStoreType ==
    IF loadedConfig.codebaseIndexConfig.def
    THEN loadedConfig.codebaseIndexConfig.v.codebaseIndexVectorStoreType
    ELSE None

(* C33: when the persisted configuration explicitly supplies a vector-     *)
(* store type outside {qdrant, faiss, chroma}, normalization keeps that    *)
(* value unchanged (it is not coerced to qdrant) and isConfigured() is     *)
(* false for the resulting state; the qdrant default is applied only when  *)
(* the type is entirely absent.                                            *)
C33_UnknownStoreNotConfigured ==
    /\ (SuppliedStoreType.def /\ SuppliedStoreType.v \notin KnownVectorStores)
           => /\ manager.vectorStoreType = SuppliedStoreType
              /\ ~isConfigured(manager)
    /\ (manager.vectorStoreType = Some("qdrant") /\ SuppliedStoreType # Some("qdrant"))
           => /\ ~SuppliedStoreType.def
              /\ ~loadedConfig.codebaseIndexVectorStoreType.def

-----------------------------------------------------------------------------
(* Further properties of the catalogue and the gate                          *)

\* override ?? base
OverrideOr(field, base) ==
    LET override == FieldOf(PromptFor(customDomainPrompts, domainSlug), field)
    IN  IF override.def THEN override.v ELSE base

(* C34: in getFullDomainDetails each of roleDefinition, whenToUse and      *)
(* customInstructions (without a working directory) equals the prompt      *)
(* override's value for that field whenever the override defines it, the   *)
(* empty string included, and otherwise the base domain's value (the empty *)
(* string for an unset whenToUse or customInstructions).                   *)
C34_OverrideWhenDefined ==
    (call.op = "getFullDomainDetails" /\ ~detailOptions.def) =>
        LET base == baseDomainOf(domainSlug, Some(customDomains))
        IN  /\ call.returned.roleDefinition =
                   OverrideOr("roleDefinition", base.roleDefinition)
            /\ call.returned.whenToUse =
                   Some(OverrideOr("whenToUse", Coalesce(base.whenToUse, Some("")).v))
            /\ call.returned.customInstructions =
                   Some(OverrideOr("customInstructions",
                                   Coalesce(base.customInstructions, Some("")).v))

-----------------------------------------------------------------------------
(* Further properties of the two tools.                                    *)

Positions(op) == {i \in 1..Len(events) : events[i].op = op}

\* the user said yes to the handler's request before the i-th event
ApprovedBefore(i) ==
    \E j \in 1..(i - 1) :
        /\ events[j] = Event("didApprove", "yes")
        /\ \E k \in 1..(j - 1) : events[k].op = "askApproval"

\* the domain the provider reports as active, the default when none is set
\* or the provider is gone
ActiveDomain == Coalesce(StateField("domain"), Some(defaultDomainSlug)).v

SwitchRun == block.name = "switch_domain"

(* C35: in every run of switchDomainTool handleDomainSwitch is called at   *)
(* most once, and only when the block is complete, a domain_slug was       *)
(* given, the slug names a domain of the catalogue, the user said yes to a *)
(* request made before, and (at the moment of the call) the slug is not    *)
(* the active domain; a complete request for the domain that is already    *)
(* active ends without asking for approval.                                *)
C35_SwitchOnlyWhenDue ==
    /\ [](SwitchRun =>
            /\ Cardinality(Positions("handleDomainSwitch")) <= 1
            /\ \A i \in Positions("handleDomainSwitch") :
                   /\ ~block.partial
                   /\ TruthyStr(block.params.domain_slug)
                   /\ events[i].arg = block.params.domain_slug.v
                   /\ KnownDomain(events[i].arg)
                   /\ ApprovedBefore(i)
            /\ pc = "handleDomainSwitch" =>
                   ActiveDomain # block.params.domain_slug.v)
    /\ [][(/\ SwitchRun
           /\ pc = "start"
           /\ ~block.partial
           /\ TruthyStr(block.params.domain_slug)
           /\ block.params.domain_slug.v = ActiveDomain)
          => (pc' = "done" /\ Positions("askApproval")' = {}
                /\ Positions("handleDomainSwitch")' = {})]_vars

\* a run of switchDomainTool that did switch the domain
C35_Witness ==
    /\ SwitchRun
    /\ pc = "done"
    /\ Did("handleDomainSwitch")
    /\ provider.def
    /\ provider.v.domain = block.params.domain_slug

-----------------------------------------------------------------------------
(* Further properties of the gate.                                         *)

\* the call supplies a path
HasPath == toolParams.def /\ TruthySeq(toolParams.v.path)

\* neither the requirements nor a switched-off experiment deny the tool
NotDisabled ==
    /\ toolRequirements # BooleanRequirements(FALSE)
    /\ (toolRequirements.kind = "object" /\ tool \in DOMAIN toolRequirements.map)
          => toolRequirements.map[tool]
    /\ tool \in EXPERIMENT_IDS => (experiments.def /\ FlagSet(experiments.v, tool))

CarriesFileRegex(entry) == entry.tuple /\ TruthySeq(entry.options.fileRegex)

\* the resolved domain grants the tool through a group entry with fileRegex
GrantedUnderFileRegex ==
    LET d == getDomainBySlug(domainSlug, customDomains)
    IN  /\ d.def
        /\ \E i \in ContainingGroups(d.v, tool) : CarriesFileRegex(d.v.groups[i])

(* C36: a group entry with fileRegex restricts write invocations only: a   *)
(* call without a path, or with a path but without diff, content and       *)
(* operations, never raises FileRestrictionError, and where the resolved   *)
(* domain grants the tool through an entry with fileRegex (and nothing     *)
(* disables the tool) the gate returns true, whether or not the path       *)
(* matches the pattern.                                                    *)
C36_OnlyWritesRestricted ==
    (GateDone /\ ~WriteInvocation) =>
        /\ gateResult.kind # "throw"
        /\ (NotDisabled /\ GrantedUnderFileRegex) => gateResult = Return(TRUE)

\* a path outside the pattern, no payload, and the restricted entry decides
C36_Witness ==
    /\ GateDone
    /\ HasPath
    /\ ~HasWritePayload(toolParams)
    /\ tool \notin ALWAYS_AVAILABLE_TOOLS
    /\ LET d == getDomainBySlug(domainSlug, customDomains)
       IN  /\ d.def
           /\ ContainingGroups(d.v, tool) # {}
           /\ LET entry == d.v.groups[Earliest(ContainingGroups(d.v, tool))]
              IN  /\ RestrictedEdit(entry)
                  /\ ~RegExpTest(entry.options.fileRegex.v, toolParams.v.path.v)
    /\ gateResult = Return(TRUE)

NewTaskRun == block.name = "new_task"

\* the sub-task exists: initClineWithTask resolved and the handler went on
SubTaskCreated == \E i \in 1..Len(events) : events[i] = Event("emit", "taskSpawned")

\* one of the reasons for which newTaskTool returns before any switch
EndsEarly ==
    \/ block.partial
    \/ Missing(block.params.mode)
    \/ Missing(block.params.domain)
    \/ Missing(block.params.message)
    \/ ~getModeBySlug(block.params.mode.v, StateField("customModes")).def
    \/ \E i \in 1..Len(events) : events[i] = Event("didApprove", "no")
    \/ ~provider.def

NothingSwitchedOrCreated ==
    /\ ~Did("handleModeSwitch")
    /\ ~Did("handleDomainSwitch")
    /\ ~Did("initClineWithTask")
    /\ ~cline.isPaused

\* once, each with the block's argument, in the order mode, domain, task,
\* and all after the user's yes
SwitchesThenTask ==
    \E m, d, t \in 1..Len(events) :
        /\ m < d /\ d < t
        /\ Positions("handleModeSwitch") = {m}
        /\ Positions("handleDomainSwitch") = {d}
        /\ Positions("initClineWithTask") = {t}
        /\ events[m].arg = block.params.mode.v
        /\ events[d].arg = block.params.domain.v
        /\ events[t].arg = block.params.message.v
        /\ ApprovedBefore(m)
        /\ \A i \in 1..Len(events) : events[i] = Event("emit", "taskSpawned") => t < i

(* C38: a run of newTaskTool that creates a sub-task had mode, domain and  *)
(* message, an existing mode and the user's approval, called               *)
(* handleModeSwitch, then handleDomainSwitch, then initClineWithTask, and  *)
(* remembered in pausedModeSlug / pausedDomainSlug the mode and domain     *)
(* that were active when the first switch was started; isPaused is true    *)
(* only once the sub-task exists; a run cut short by a partial block, a    *)
(* missing parameter, an invalid mode, a denial or a vanished provider     *)
(* switches nothing, creates nothing and leaves isPaused alone.            *)
C38_NewTaskOrder ==
    /\ [](NewTaskRun =>
            /\ SubTaskCreated =>
                  /\ ~block.partial
                  /\ TruthyStr(block.params.mode)
                  /\ TruthyStr(block.params.domain)
                  /\ TruthyStr(block.params.message)
                  /\ getModeBySlug(block.params.mode.v, StateField("customModes")).def
                  /\ SwitchesThenTask
            /\ cline.isPaused => SubTaskCreated
            /\ EndsEarly => NothingSwitchedOrCreated)
    /\ [][NewTaskRun =>
            /\ (~Did("handleModeSwitch") /\ Did("handleModeSwitch")') =>
                  /\ cline'.pausedModeSlug =
                        Coalesce(StateField("mode"), Some(defaultModeSlug))
                  /\ cline'.pausedDomainSlug =
                        Coalesce(StateField("domain"), Some(defaultDomainSlug))
            /\ Did("handleModeSwitch") =>
                  /\ cline'.pausedModeSlug = cline.pausedModeSlug
                  /\ cline'.pausedDomainSlug = cline.pausedDomainSlug]_vars

\* a sub-task created from a provider whose mode and domain both differ
\* from the requested ones
C38_Witness ==
    /\ NewTaskRun
    /\ pc = "done"
    /\ SubTaskCreated
    /\ cline.isPaused
    /\ cline.pausedModeSlug # provider.v.mode
    /\ cline.pausedDomainSlug # provider.v.domain

-----------------------------------------------------------------------------
(* Further properties of the catalogue.                                    *)

Occurrences(list, slug) == {i \in 1..Len(list) : list[i].slug = slug}

Latest(S) == CHOOSE i \in S : \A j \in S : j <= i

\* the custom slugs that match no built-in, and the places in the custom
\* list at which each of them appears first
NewSlugs(customs) ==
    {customs[i].slug : i \in 1..Len(customs)} \ {domains[i].slug : i \in 1..Len(domains)}

FirstOfNew(customs) == {Earliest(Occurrences(customs, s)) : s \in NewSlugs(customs)}

\* where the merge puts the slug: the built-in's place, or behind the
\* built-ins in the order of first occurrence
PlaceOf(customs, slug) ==
    IF HasSlug(domains, slug) THEN FindIndex(domains, slug)
    ELSE Len(domains)
         + Cardinality({i \in FirstOfNew(customs) :
                           i <= Earliest(Occurrences(customs, slug))})

(* C39: whatever custom list getAllDomains is given, one that repeats a    *)
(* slug included, the returned sequence has pairwise distinct slugs; each  *)
(* custom slug stands where its first occurrence was put and carries the   *)
(* fields of its last occurrence; and the length is the number of          *)
(* built-ins plus the number of distinct custom slugs matching no          *)
(* built-in.                                                               *)
C39_DistinctSlugsLastWins ==
    call.op = "getAllDomains" =>
        LET customs == ArgList(call.customDomains)
        IN  /\ UniqueSlugs(call.returned)
            /\ Len(call.returned) = Len(domains) + Cardinality(NewSlugs(customs))
            /\ \A i \in 1..Len(customs) :
                  LET slug == customs[i].slug
                  IN  /\ PlaceOf(customs, slug) \in 1..Len(call.returned)
                      /\ call.returned[PlaceOf(customs, slug)] =
                            customs[Latest(Occurrences(customs, slug))]

\* a new slug given twice: one entry, with the fields of the second
C39_Witness ==
    /\ call.op = "getAllDomains"
    /\ call.customDomains = Some(<<CustomLegal, CustomLegalAgain>>)
    /\ Len(call.returned) = Len(domains) + 1
    /\ call.returned[Len(domains) + 1] = CustomLegalAgain

=============================================================================
